---- MODULE Spec2Model ----
(***************************************************************************)
(* Informer (rmavis/informer): the form gatherer.  The repository holds    *)
(* three variants of the same program:                                     *)
(*   - the constructor `function Informer(params)` (src/informer.js 57-531)*)
(*     with the group / pargroup fixpoint builder,                         *)
(*   - the module `var Informer = (function () {...})()` (src/informer.js  *)
(*     599-933) with the colon-path builder,                               *)
(*   - the later module printed in src/readme.md 248-658 (setConf, clear). *)
(*                                                                         *)
(* Strings are sequences of symbols; a symbol is a character or an atomic  *)
(* chunk of characters that holds no delimiter (":" , "." , a quote).      *)
(* A JavaScript object is an ordered list of entries, one per property at  *)
(* any depth, in insertion order (the order `for (key in obj)` and         *)
(* JSON.stringify follow for keys that are not integer-like).              *)
(***************************************************************************)
EXTENDS Naturals, Integers, Sequences, FiniteSets, TLC

(***************************************************************************)
(* State                                                                   *)
(***************************************************************************)

VARIABLES
    builder,      \* which variant is loaded: "colon" the module, "fix" the constructor
    phase,        \* "loop" while the build's loop runs, then "done" or "threw"; "idle"
    input,        \* the elements of the form being built, in document order
    o,            \* the loop index (1-based) of groupValues / loopOnElements
    val_objs,     \* groupValues: the value objects of elemsToObjs
    vals_struct,  \* groupValues: the accumulator
    elements,     \* gatherTheValues (constructor): the elements array
    fx,           \* gatherTheValues (constructor): values, added, recur, ...
    before,       \* the accumulator as it was before the latest turn of the loop
    orphans,      \* what displayErrors has listed
    seen,         \* every key the accumulator has held so far, at any depth
    doc,          \* the forms of the page
    conf,         \* the module's configuration
    last_action_form, \* the module's last form: an index of doc, or 0 for null
    http,         \* the requests handed to Http, in order
    calls,        \* the page functions that have been called, in order
    inst,         \* the constructor's instance: caller, values, return
    outcome,      \* the latest public call: what it was given, did and returned
    first,        \* per variant and form, the outcome of its first build
    regions,      \* the innerHTML of the elements of the page that have an id
    conf_bk,      \* the later module's backup of its configuration, or null
    walk,         \* a form resolution: the nodes, where it is, what it has returned
    history,      \* the calls of setConf and resetConf so far, with what each left
    clearing      \* a clear(form): the elements, the loop indices, how it ended

bvars == <<builder, phase, input, o, val_objs, vals_struct, elements, fx, before, orphans, seen>>

svars == <<doc, conf, last_action_form, http, calls, inst, outcome, first, regions>>

rvars == <<conf_bk, walk, history, clearing>>

vars == <<bvars, svars, rvars>>

(***************************************************************************)
(* Values of the JavaScript runtime                                        *)
(***************************************************************************)

\* `getAttribute` of an attribute the element does not have.
Null == <<"#null">>

\* The boolean false, the "absent" sentinel of `attr || false`.
False == <<"#false">>

\* ToBoolean of a string-or-sentinel value: null, false and "" are falsy.
Truthy(v) == v \notin {Null, False, <<>>}

\* a || b
Or(a, b) == IF Truthy(a) THEN a ELSE b

\* ToPropertyKey: obj[null] is obj["null"], obj[false] is obj["false"].
ToKey(v) == IF v = Null THEN <<"null">> ELSE IF v = False THEN <<"false">> ELSE v

\* String.prototype.toLowerCase, symbol by symbol.
LowerSym(c) ==
    CASE c = "POST" -> "post"
      [] c = "Post" -> "post"
      [] c = "GET"  -> "get"
      [] c = "P"    -> "p"
      [] c = "G"    -> "g"
      [] c = "FORM" -> "form"
      [] c = "BODY" -> "body"
      [] c = "HTML" -> "html"
      [] c = "DIV"  -> "div"
      [] c = "INPUT" -> "input"
      [] OTHER      -> c

toLowerCase(s) == [i \in 1..Len(s) |-> LowerSym(s[i])]

\* A split that leaves out the empty pieces, and gives the string itself
\* when every piece is empty.
RECURSIVE nonEmptyPieces(_, _)
nonEmptyPieces(s, sep) ==
    IF \A i \in 1..Len(s) : s[i] # sep
    THEN IF s = << >> THEN << >> ELSE <<s>>
    ELSE LET i == CHOOSE k \in 1..Len(s) :
                      s[k] = sep /\ \A j \in 1..(k - 1) : s[j] # sep
         IN  (IF i = 1 THEN << >> ELSE <<SubSeq(s, 1, i - 1)>>)
             \o nonEmptyPieces(SubSeq(s, i + 1, Len(s)), sep)

splitNonEmpty(s, sep) ==
    IF nonEmptyPieces(s, sep) = << >> THEN <<s>> ELSE nonEmptyPieces(s, sep)

\* String.prototype.split(sep) for a one-symbol separator.
RECURSIVE split(_, _)
split(s, sep) ==
    IF \A i \in 1..Len(s) : s[i] # sep
    THEN <<s>>
    ELSE LET i == CHOOSE k \in 1..Len(s) :
                      s[k] = sep /\ \A j \in 1..(k - 1) : s[j] # sep
         IN  <<SubSeq(s, 1, i - 1)>> \o split(SubSeq(s, i + 1, Len(s)), sep)

(***************************************************************************)
(* Objects: ordered entries [path, obj, val].  The object itself is the    *)
(* root, path <<>>; an entry with obj = TRUE is a nested object, one with  *)
(* obj = FALSE a string leaf.                                              *)
(***************************************************************************)

EmptyObject == << >>

Leaf(p, v) == [path |-> p, obj |-> FALSE, val |-> v]

Obj(p) == [path |-> p, obj |-> TRUE, val |-> << >>]

IsPrefix(p, q) == Len(p) <= Len(q) /\ SubSeq(q, 1, Len(p)) = p

\* q lies strictly below p.
Under(p, q) == Len(p) < Len(q) /\ IsPrefix(p, q)

Has(t, p) == \E i \in 1..Len(t) : t[i].path = p

At(t, p) == t[CHOOSE i \in 1..Len(t) : t[i].path = p]

IsObject(t, p) == p = << >> \/ (Has(t, p) /\ At(t, p).obj)

IsLeaf(t, p) == Has(t, p) /\ ~At(t, p).obj

\* ToBoolean(t[p]): an object, or a non-empty string.
TruthyAt(t, p) == Has(t, p) /\ (At(t, p).obj \/ At(t, p).val # << >>)

\* `for (key in obj)` at the node p: its own keys, in insertion order.
OwnKeys(t, p) ==
    LET kids == SelectSeq(t, LAMBDA x : Len(x.path) = Len(p) + 1 /\ IsPrefix(p, x.path))
    IN  [i \in 1..Len(kids) |-> kids[i].path[Len(p) + 1]]

\* parent[key] = e: an existing property keeps its place and loses what hung
\* below it; a new property is appended.
Assign(t, e) ==
    IF Has(t, e.path)
    THEN LET kept == SelectSeq(t, LAMBDA x : ~Under(e.path, x.path))
         IN  [i \in 1..Len(kept) |-> IF kept[i].path = e.path THEN e ELSE kept[i]]
    ELSE Append(t, e)

\* t[p] = src[q], where src is another object: the value and all below it.
Graft(t, p, src, q) ==
    LET node  == At(src, q)
        below == SelectSeq(src, LAMBDA x : Under(q, x.path))
        moved == [i \in 1..Len(below) |->
                    [below[i] EXCEPT !.path =
                        p \o SubSeq(below[i].path, Len(q) + 1, Len(below[i].path))]]
    IN  Assign(t, [node EXCEPT !.path = p]) \o moved

\* { key: t } for an object t.
Nest(key, t) ==
    <<Obj(<<key>>)>> \o [i \in 1..Len(t) |-> [t[i] EXCEPT !.path = <<key>> \o t[i].path]]

\* The properties of an object as a set: two objects are structurally equal
\* when they hold the same properties at the same paths.
Props(t) == {t[i] : i \in 1..Len(t)}

\* Every key of an object, at any depth.
KeysOf(t) == {t[i].path[Len(t[i].path)] : i \in 1..Len(t)}

(***************************************************************************)
(* Module variant: the colon-path builder                                  *)
(***************************************************************************)

RECURSIVE mergeAt(_, _, _, _, _)
mergeAt(obj1, p1, obj2, p2, keys) ==
    IF keys = << >>
    THEN obj1
    ELSE LET key == Head(keys)
             a   == p1 \o <<key>>
             b   == p2 \o <<key>>
             nxt == IF TruthyAt(obj1, a) /\ IsObject(obj1, a) /\ IsObject(obj2, b)
                    THEN mergeAt(obj1, a, obj2, b, OwnKeys(obj2, b))
                    ELSE Graft(obj1, a, obj2, b)
         IN  mergeAt(nxt, p1, obj2, p2, Tail(keys))

\* A merge that copies every top-level key of obj2 over obj1's.
RECURSIVE copyKeys(_, _, _)
copyKeys(obj1, obj2, keys) ==
    IF keys = << >>
    THEN obj1
    ELSE copyKeys(Graft(obj1, <<Head(keys)>>, obj2, <<Head(keys)>>), obj2, Tail(keys))

mergeShallow(obj1, obj2) == copyKeys(obj1, obj2, OwnKeys(obj2, << >>))

\* A merge that copies only the top-level keys of obj2 that obj1 has not.
mergeNewOnly(obj1, obj2) ==
    copyKeys(obj1, obj2, SelectSeq(OwnKeys(obj2, << >>), LAMBDA key : ~Has(obj1, <<key>>)))

mergeObjects(obj1, obj2) == mergeAt(obj1, << >>, obj2, << >>, OwnKeys(obj2, << >>))

\* A nesting that takes the keys from the last to the first.
RECURSIVE buildNestedObjectReversed(_, _)
buildNestedObjectReversed(keys, end_val) ==
    IF Len(keys) = 1
    THEN Nest(keys[1], end_val)
    ELSE Nest(keys[Len(keys)],
              buildNestedObjectReversed(SubSeq(keys, 1, Len(keys) - 1), end_val))

RECURSIVE buildNestedObject(_, _)
buildNestedObject(keys, end_val) ==
    IF Len(keys) = 1
    THEN Nest(keys[1], end_val)
    ELSE Nest(keys[1], buildNestedObject(Tail(keys), end_val))

\* A turn that leaves a root key alone once it is set.
groupValueKeepFirst(vals_struct_, vo) ==
    IF Truthy(vo.group)
    THEN mergeObjects(vals_struct_,
                      buildNestedObject(split(vo.group, ":"),
                                        <<Leaf(<<ToKey(vo.name)>>, vo.value)>>))
    ELSE IF Has(vals_struct_, <<ToKey(vo.name)>>)
         THEN vals_struct_
         ELSE Assign(vals_struct_, Leaf(<<ToKey(vo.name)>>, vo.value))

\* A turn that puts the fragment's root key in place of the one that is there.
groupValueReplacing(vals_struct_, vo) ==
    IF Truthy(vo.group)
    THEN LET form_val   == <<Leaf(<<ToKey(vo.name)>>, vo.value)>>
             val_struct == buildNestedObject(split(vo.group, ":"), form_val)
         IN  copyKeys(vals_struct_, val_struct, OwnKeys(val_struct, << >>))
    ELSE Assign(vals_struct_, Leaf(<<ToKey(vo.name)>>, vo.value))

\* One turn of the loop of groupValues, for the value object vo.
groupValue(vals_struct_, vo) ==
    IF Truthy(vo.group)
    THEN LET form_val   == <<Leaf(<<ToKey(vo.name)>>, vo.value)>>
             val_struct == buildNestedObject(split(vo.group, ":"), form_val)
         IN  mergeObjects(vals_struct_, val_struct)
    ELSE Assign(vals_struct_, Leaf(<<ToKey(vo.name)>>, vo.value))

RECURSIVE groupFrom(_, _)
groupFrom(vals_struct_, val_objs_) ==
    IF val_objs_ = << >>
    THEN vals_struct_
    ELSE groupFrom(groupValue(vals_struct_, Head(val_objs_)), Tail(val_objs_))

\* An accumulator that is whatever the last build has left.
StaleStruct == vals_struct

\* var vals_struct = { }
FreshStruct == EmptyObject

groupValues(val_objs_) == groupFrom(FreshStruct, val_objs_)

(***************************************************************************)
(* Elements of a form, and their extraction                                *)
(***************************************************************************)

\* An input-like element: its tag name, its value and the attributes read.
Elem(tag, name, value, group, pargroup) ==
    [tag |-> tag, name |-> name, value |-> value, group |-> group, pargroup |-> pargroup]

\* var input_types / this.inputTypes
input_types == <<"input", "select", "textarea">>

\* form.getElementsByTagName(tag): the descendants with that tag, in document order.
getElementsByTagName(elems, tag) == SelectSeq(elems, LAMBDA e : e.tag = tag)

\* Module variant: value and the value_attributes name and group, `|| false`.
elemToObject(elem) ==
    [value |-> elem.value, name |-> Or(elem.name, False), group |-> Or(elem.group, False)]

\* An extraction that takes the elements of all the types in document order.
elemsInDocumentOrder(elems, types) ==
    SelectSeq(elems, LAMBDA e : \E k \in 1..Len(types) : types[k] = e.tag)

RECURSIVE elemsOfTypes(_, _)
elemsOfTypes(elems, types) ==
    IF types = << >>
    THEN << >>
    ELSE getElementsByTagName(elems, Head(types)) \o elemsOfTypes(elems, Tail(types))

elemsToObjs(elems) ==
    LET found == elemsOfTypes(elems, input_types)
    IN  [i \in 1..Len(found) |-> elemToObject(found[i])]

\* Constructor variant: name as getAttribute gives it, group and pargroup `|| false`.
buildElementsArray(elems) ==
    LET found == elemsOfTypes(elems, input_types)
    IN  [i \in 1..Len(found) |->
            [name     |-> found[i].name,
             val      |-> found[i].value,
             group    |-> Or(found[i].group, False),
             pargroup |-> Or(found[i].pargroup, False)]]

(***************************************************************************)
(* Constructor variant: the group / pargroup fixpoint builder.             *)
(* The closure state of gatherTheValues is the record                      *)
(*   [values, deleted, added, recur, baseIsSet, threw, passes]             *)
(* deleted holds the indexes `delete elements[o]` has emptied, threw says  *)
(* that a TypeError has left the function, passes counts the calls of      *)
(* loopOnElements.                                                         *)
(***************************************************************************)

\* var values = { }, added = false, before loopOnElements() is called.
NewClosure ==
    [values |-> EmptyObject, deleted |-> {}, added |-> FALSE, recur |-> FALSE,
     baseIsSet |-> FALSE, threw |-> FALSE, passes |-> 1]

\* Lines 396-401, with vals the object at path p and key == elem['pargroup'].
\* When vals[pargroup] is a string, vals[pargroup][group] is undefined, the
\* assignment of { } to a property of a string is dropped (the code is not
\* strict), and line 399 sets a property of undefined: a TypeError.  When
\* vals[pargroup][group] is a non-empty string, line 399 sets a property of
\* a string, which is dropped.
insertUnder(st, p, elem) ==
    LET par == p \o <<elem.pargroup>>
        grp == par \o <<ToKey(elem.group)>>
        nam == grp \o <<ToKey(elem.name)>>
    IN  IF ~IsObject(st.values, par)
        THEN [st EXCEPT !.threw = TRUE]
        ELSE LET v1 == IF ~TruthyAt(st.values, grp)
                       THEN Assign(st.values, Obj(grp))
                       ELSE st.values
                 v2 == IF IsObject(v1, grp) THEN Assign(v1, Leaf(nam, elem.val)) ELSE v1
             IN  [st EXCEPT !.values = v2, !.added = TRUE]

\* A scan that looks at the keys of the object at path p and never below them.
RECURSIVE scanKeysHere(_, _, _, _)
scanKeysHere(st, p, keys, elem) ==
    IF keys = << >> \/ st.threw
    THEN st
    ELSE IF Head(keys) = elem.pargroup
         THEN insertUnder(st, p, elem)
         ELSE scanKeysHere(st, p, Tail(keys), elem)

\* The labelled `scan` loop over the keys of the object at path p.
RECURSIVE scanKeys(_, _, _, _)
scanKeys(st, p, keys, elem) ==
    IF keys = << >> \/ st.threw
    THEN st
    ELSE LET key == Head(keys)
         IN  IF key = elem.pargroup
             THEN insertUnder(st, p, elem)
             ELSE IF IsObject(st.values, p \o <<key>>)
                  THEN LET inner == scanKeys(st, p \o <<key>>,
                                             OwnKeys(st.values, p \o <<key>>), elem)
                       IN  scanKeys(inner, p, Tail(keys), elem)
                  ELSE scanKeys(st, p, Tail(keys), elem)

\* A step that makes a new object for the group of every element.
addElementNewGroup(st, elem) ==
    IF Truthy(elem.pargroup)
    THEN scanKeys(st, << >>, OwnKeys(st.values, << >>), elem)
    ELSE IF Truthy(elem.group)
         THEN LET grp == <<elem.group>>
                  v1  == Assign(st.values, Obj(grp))
              IN  [st EXCEPT !.values = Assign(v1, Leaf(grp \o <<ToKey(elem.name)>>, elem.val)),
                             !.added  = TRUE]
         ELSE [st EXCEPT !.values = Assign(st.values, Leaf(<<ToKey(elem.name)>>, elem.val)),
                         !.added  = TRUE]

addElementToValues(st, elem) ==
    IF Truthy(elem.pargroup)
    THEN scanKeys(st, << >>, OwnKeys(st.values, << >>), elem)
    ELSE IF Truthy(elem.group)
         THEN LET grp == <<elem.group>>
                  v1  == IF ~TruthyAt(st.values, grp)
                         THEN Assign(st.values, Obj(grp))
                         ELSE st.values
                  v2  == IF IsObject(v1, grp)
                         THEN Assign(v1, Leaf(grp \o <<ToKey(elem.name)>>, elem.val))
                         ELSE v1
              IN  [st EXCEPT !.values = v2, !.added = TRUE]
         ELSE [st EXCEPT !.values = Assign(st.values, Leaf(<<ToKey(elem.name)>>, elem.val)),
                         !.added  = TRUE]

\* A turn that asks for another pass whenever it has looked at a record.
loopTurnAlwaysRecur(st, elems, i) ==
    IF i \in st.deleted
    THEN st
    ELSE LET s0 == [st EXCEPT !.added = FALSE]
             s1 == IF ~Truthy(elems[i].pargroup) \/ s0.baseIsSet
                   THEN addElementToValues(s0, elems[i])
                   ELSE s0
         IN  IF s1.threw
             THEN s1
             ELSE IF s1.added
                  THEN [s1 EXCEPT !.deleted = @ \cup {i}, !.recur = TRUE]
                  ELSE [s1 EXCEPT !.recur = TRUE]

\* One turn of the loop of loopOnElements, for the index i.
loopTurn(st, elems, i) ==
    IF i \in st.deleted
    THEN st
    ELSE LET s0 == [st EXCEPT !.added = FALSE]
             s1 == IF ~Truthy(elems[i].pargroup) \/ s0.baseIsSet
                   THEN addElementToValues(s0, elems[i])
                   ELSE s0
         IN  IF s1.threw
             THEN s1
             ELSE IF s1.added
                  THEN [s1 EXCEPT !.deleted = @ \cup {i}, !.recur = TRUE]
                  ELSE s1

\* if (recur) loopOnElements(true): the next call starts with recur = false.
nextPass(st) == [st EXCEPT !.recur = FALSE, !.baseIsSet = TRUE, !.passes = @ + 1]

RECURSIVE loopFrom(_, _, _)
loopFrom(st, elems, i) ==
    IF st.threw
    THEN st
    ELSE IF i <= Len(elems)
         THEN loopFrom(loopTurn(st, elems, i), elems, i + 1)
         ELSE IF st.recur THEN loopFrom(nextPass(st), elems, 1) ELSE st

loopOnElements(elems) == loopFrom(NewClosure, elems, 1)

\* displayErrors: the pargroup of every element left, in order; nothing when none is left.
displayErrors(st, elems) ==
    LET left == SelectSeq([i \in 1..Len(elems) |-> [at |-> i, pargroup |-> elems[i].pargroup]],
                          LAMBDA e : e.at \notin st.deleted)
    IN  [i \in 1..Len(left) |-> left[i].pargroup]

(***************************************************************************)
(* The page and the runtime around the program                             *)
(***************************************************************************)

\* What a call returns or hands on: undefined, null, an object, a string.
Undefined == [k |-> "undefined", t |-> << >>, s |-> << >>]

JSNull == [k |-> "null", t |-> << >>, s |-> << >>]

ObjV(t) == [k |-> "object", t |-> t, s |-> << >>]

StrV(s) == [k |-> "string", t |-> << >>, s |-> s]

\* JSON.stringify of the node at path p: keys in insertion order, every leaf
\* a string.  The symbols of the model's strings need no escaping.
RECURSIVE stringifyAt(_, _)
RECURSIVE stringifyKeys(_, _, _)
stringifyAt(t, p) ==
    IF IsObject(t, p)
    THEN <<"{">> \o stringifyKeys(t, p, OwnKeys(t, p)) \o <<"}">>
    ELSE <<"\"">> \o At(t, p).val \o <<"\"">>

stringifyKeys(t, p, keys) ==
    IF keys = << >>
    THEN << >>
    ELSE <<"\"">> \o Head(keys) \o <<"\"", ":">>
         \o stringifyAt(t, p \o <<Head(keys)>>)
         \o (IF Tail(keys) = << >> THEN << >> ELSE <<",">>)
         \o stringifyKeys(t, p, Tail(keys))

stringify(t) == stringifyAt(t, << >>)

\* A form: the attributes it has, and its input-like descendants in order.
Form(attrs, elems) == [attrs |-> attrs, elems |-> elems]

\* form.getAttribute(a): null when the form does not have the attribute.
getAttribute(form, a) == IF a \in DOMAIN form.attrs THEN form.attrs[a] ELSE Null

\* The functions the page has put on window, by path, and the objects on the
\* way to them.
WindowFunctions == {<<<<"handler">>>>, <<<<"App">>, <<"done">>>>}

WindowObjects == {<<<<"App">>>>}

\* stringToFunction(functionName), context window.  The loop reads a property
\* of `context` for every namespace and the test reads one more: a TypeError
\* as soon as a namespace is not there.  Else the function, or false.
stringToFunction(functionName) ==
    LET parts      == split(functionName, ".")
        namespaces == SubSeq(parts, 1, Len(parts) - 1)
        there(k)   == SubSeq(parts, 1, k) \in WindowObjects \cup WindowFunctions
        threw      == \E k \in 1..Len(namespaces) : ~there(k)
    IN  [threw |-> threw,
         func  |-> IF ~threw /\ parts \in WindowFunctions THEN functionName ELSE False]

\* The names of the Http object's public methods.
HttpVerbs == {<<"get">>, <<"post">>}

\* var conf = {...}, as the source has it.
DefaultConf ==
    [elem_trigger_attr   |-> "action",
     elem_callback_attr  |-> "onreturn",
     unnamed_form_key    |-> Null,
     data_transform_func |-> "JSON.stringify"]

\* The ids of the elements of the page that receive responses.
ElementIds == {<<"work-space">>, <<"out">>}

\* document.getElementById(id): the element, named by its id, or null.
getElementById(id) == IF id \in ElementIds THEN id ELSE Null

\* Nothing has been written into any element.
NoContent == [id \in ElementIds |-> << >>]

\* init: this.target = document.getElementById('work-space');
\* this.caller = null; this.values = null; this.return = null (0: no form).
NewInstance ==
    [target |-> getElementById(<<"work-space">>),
     caller |-> 0, values |-> JSNull, return |-> JSNull]

\* this.reset()
reset(this) == [this EXCEPT !.caller = 0, !.values = JSNull, !.return = JSNull]

\* The functions of an instance that a form's action attribute can name.
InstMethods ==
    {<<"startup">>, <<"displayCalledForm">>, <<"blammo">>, <<"successor">>}

\* No form resolution is going on.
NoWalk == [status |-> "none"]

\* No clear(form) is going on.
NoClearing == [status |-> "none"]

\* The record of a public call, before the call has done anything.
\*   threwAt    where an exception left the call, or "none"
\*   ret        what the call returned
\*   built      the call has run a build; variant, buildThrew, tree: its outcome
\*   wrapped    the call has wrapped a payload; payload, vals: what and into what
\*   selecting  the call has looked up the transport function
\*   sent       the requests the call has handed to Http
\*   invoked    the page functions the call has called
\*   lastBefore last_action_form when the call began
NoOutcome ==
    [op |-> "none", form |-> 0, threwAt |-> "none", ret |-> Undefined,
     built |-> FALSE, variant |-> "none", buildThrew |-> FALSE, tree |-> EmptyObject,
     wrapped |-> FALSE, payload |-> Undefined, vals |-> Undefined,
     selecting |-> FALSE, sent |-> 0, invoked |-> 0, lastBefore |-> 0]

(***************************************************************************)
(* Stepwise builds of one element sequence                                 *)
(***************************************************************************)

\* The longest element sequence a build is given.
MaxElems == 3

A == <<"a">>
B == <<"b">>

ColonElems ==
    {Elem("input", n, v, g, Null) :
        n \in {A, B}, v \in {<<"v">>, <<"w">>},
        g \in {Null, A, <<"a", ":", "b">>, <<"a", ":", "a">>, <<":", "b">>}}

\* Name and value, and group and pargroup, of the elements given to the
\* fixpoint builder: a leaf "" is falsy, a pargroup may lack its group.
FixNamed == {<<A, <<"v">>>>, <<B, <<"v">>>>, <<B, << >>>>}

FixGrouped == {<<Null, Null>>, <<A, Null>>, <<B, Null>>, <<B, A>>, <<A, B>>, <<Null, A>>}

FixElems == {Elem("input", nv[1], nv[2], gp[1], gp[2]) : nv \in FixNamed, gp \in FixGrouped}

SeqsUpTo(S, n) == UNION {[1..k -> S] : k \in 0..n}

InitBuild ==
    /\ builder \in {"colon", "fix"}
    /\ input \in IF builder = "colon" THEN SeqsUpTo(ColonElems, MaxElems)
                                      ELSE SeqsUpTo(FixElems, MaxElems)
    /\ phase = "loop"
    /\ o = 1
    /\ val_objs = IF builder = "colon" THEN elemsToObjs(input) ELSE << >>
    /\ vals_struct = EmptyObject
    /\ elements = IF builder = "fix" THEN buildElementsArray(input) ELSE << >>
    /\ fx = NewClosure
    /\ before = EmptyObject
    /\ orphans = << >>
    /\ seen = {}
    /\ doc = << >>
    /\ conf = DefaultConf
    /\ last_action_form = 0
    /\ http = << >>
    /\ calls = << >>
    /\ inst = NewInstance
    /\ outcome = NoOutcome
    /\ first = << >>
    /\ regions = NoContent
    /\ conf_bk = JSNull
    /\ walk = NoWalk
    /\ history = << >>
    /\ clearing = NoClearing

\* groupValues, one turn of its loop.
groupValuesTurn ==
    /\ builder = "colon" /\ phase = "loop" /\ o <= Len(val_objs)
    /\ before' = vals_struct
    /\ vals_struct' = groupValue(vals_struct, val_objs[o])
    /\ o' = o + 1
    /\ seen' = seen \cup KeysOf(vals_struct')
    /\ UNCHANGED <<builder, phase, input, val_objs, elements, fx, orphans, svars, rvars>>

\* groupValues returns vals_struct.
groupValuesReturn ==
    /\ builder = "colon" /\ phase = "loop" /\ o > Len(val_objs)
    /\ phase' = "done"
    /\ UNCHANGED <<builder, input, o, val_objs, vals_struct, elements, fx, before, orphans, seen, svars, rvars>>

\* loopOnElements, one turn of its loop.
loopOnElementsTurn ==
    /\ builder = "fix" /\ phase = "loop" /\ o <= Len(elements)
    /\ before' = fx.values
    /\ fx' = loopTurn(fx, elements, o)
    /\ phase' = IF fx'.threw THEN "threw" ELSE "loop"
    /\ o' = o + 1
    /\ seen' = seen \cup KeysOf(fx'.values)
    /\ UNCHANGED <<builder, input, val_objs, vals_struct, elements, orphans, svars, rvars>>

\* if (recur) loopOnElements(true)
loopOnElementsAgain ==
    /\ builder = "fix" /\ phase = "loop" /\ o > Len(elements) /\ fx.recur
    /\ fx' = nextPass(fx)
    /\ o' = 1
    /\ UNCHANGED <<builder, phase, input, val_objs, vals_struct, elements, before, orphans, seen, svars, rvars>>

\* The loop has ended without recur: displayErrors(); this.values = values.
gatherReturn ==
    /\ builder = "fix" /\ phase = "loop" /\ o > Len(elements) /\ ~fx.recur
    /\ orphans' = displayErrors(fx, elements)
    /\ phase' = "done"
    /\ UNCHANGED <<builder, input, o, val_objs, vals_struct, elements, fx, before, seen, svars, rvars>>

NextBuild ==
    \/ groupValuesTurn
    \/ groupValuesReturn
    \/ loopOnElementsTurn
    \/ loopOnElementsAgain
    \/ gatherReturn

SpecBuild == InitBuild /\ [][NextBuild]_vars

(***************************************************************************)
(* The public operations, each as one atomic call.                         *)
(*                                                                         *)
(* Module variant: Informer.collect, Informer.submit, Informer.trigger and *)
(* the callback of a request.  Constructor variant: handleEvent for a      *)
(* submit event.  A form is named by its index in doc.  Both variants      *)
(* define the global Informer, so a page loads one of them: the module     *)
(* when builder is "colon", the constructor when it is "fix".              *)
(***************************************************************************)

Forms == 1..Len(doc)

\* window.event while the call runs: a submit event, or "none" when the call
\* is not made from an event handler (window.event is undefined).  An event
\* of another type differs from a submit event in preventDefault() alone.
WindowEvents == {"submit", "none"}

\* The requests and the function calls the model follows.
MaxRequests == 2

MaxCalls == 2

Variants == {"module", "constructor"}

\* The history kept of the builds of one form by one variant: how many (2
\* for more), the outcome of the first, and whether a build of something else
\* has run since.
NoBuild == [n |-> 0, threw |-> FALSE, tree |-> EmptyObject, mixed |-> FALSE]

noteBuild(variant, f, threw, tree) ==
    [v \in Variants |-> [g \in Forms |->
        IF v = variant /\ g = f
        THEN IF first[v][g].n = 0
             THEN [n |-> 1, threw |-> threw, tree |-> tree, mixed |-> FALSE]
             ELSE [first[v][g] EXCEPT !.n = 2]
        ELSE IF first[v][g].n > 0
             THEN [first[v][g] EXCEPT !.mixed = TRUE]
             ELSE first[v][g]]]

\* checkSubmitEvent(): reads window.event.type.
checkSubmitEvent(ev) == [threw |-> ev = "none"]

\* gatherTheValues(form) of the module: the tree of the form's elements.
gatherTheValues(form) == groupValues(elemsToObjs(form.elems))

\* transform(tree) when transform is a function, else the tree itself.
applyTransform(transform, tree) ==
    IF transform = "JSON.stringify" THEN StrV(stringify(tree)) ELSE ObjV(tree)

\* vals[key] = valobj, for vals = { }.
wrapUnder(key, valobj) ==
    IF valobj.k = "object"
    THEN ObjV(Nest(key, valobj.t))
    ELSE ObjV(<<Leaf(<<key>>, valobj.s)>>)

\* A key that prefers the id of the form.
formKeyIdFirst(form) ==
    Or(Or(getAttribute(form, "id"), getAttribute(form, "name")), conf.unnamed_form_key)

\* ((k = name) || (k = id)) || conf.unnamed_form_key
formKey(form) ==
    Or(Or(getAttribute(form, "name"), getAttribute(form, "id")), conf.unnamed_form_key)

toObject(form, transform) ==
    LET key    == formKey(form)
        valobj == applyTransform(transform, gatherTheValues(form))
    IN  IF Truthy(key) THEN wrapUnder(key, valobj) ELSE valobj

\* Where the answer of a request has gone: "pending" until it arrives, then
\* "callback" (a function of the page), "method" (a function of the
\* instance), "terminal" or "target" (an element, by id), "none" (the callback
\* is no function), or "threw" (the handler has raised a TypeError).
Went(kind, name) == [kind |-> kind, name |-> name]

Nowhere == Went("pending", << >>)

\* What the server returns for the i-th request.
ResponseOf(i) == IF i = 1 THEN <<"r1">> ELSE IF i = 2 THEN <<"r2">> ELSE <<"r3">>

\* pending: the requests that had no answer yet when this one was sent.
Request(by, f, verb, url, params, callback) ==
    [by |-> by, form |-> f, verb |-> verb, url |-> url, params |-> params,
     callback |-> callback, answered |-> FALSE, went |-> Nowhere,
     pending |-> {j \in 1..Len(http) : ~http[j].answered}]

Begin(op, f) == [NoOutcome EXCEPT !.op = op, !.form = f, !.lastBefore = last_action_form]

\* Informer.collect(form)
Collect(f, ev) ==
    /\ builder = "colon"
    /\ f \in Forms
    /\ IF checkSubmitEvent(ev).threw
       THEN /\ outcome' = [Begin("collect", f) EXCEPT !.threwAt = "event"]
            /\ UNCHANGED <<vals_struct, last_action_form, first>>
       ELSE LET tree == gatherTheValues(doc[f])
            IN  /\ vals_struct' = tree
                /\ last_action_form' = f
                /\ first' = noteBuild("module", f, FALSE, tree)
                /\ outcome' = [Begin("collect", f) EXCEPT
                                  !.ret = ObjV(tree), !.built = TRUE,
                                  !.variant = "module", !.tree = tree]
    /\ UNCHANGED <<builder, phase, input, o, val_objs, elements, fx, before, orphans, seen>>
    /\ UNCHANGED <<doc, conf, http, calls, inst, regions, rvars>>

\* Informer.submit(form): checkSubmitEvent(); handleSubmission(form)
Submit(f, ev) ==
    /\ builder = "colon"
    /\ f \in Forms
    /\ Len(http) < MaxRequests
    /\ LET form   == doc[f]
           url    == getAttribute(form, "action")
           method == getAttribute(form, "method")
           chk    == getAttribute(form, conf.elem_callback_attr)
           func   == IF Truthy(chk) THEN stringToFunction(chk) ELSE [threw |-> FALSE, func |-> Null]
           tree   == gatherTheValues(form)
           vals   == toObject(form, conf.data_transform_func)
           built  == [Begin("submit", f) EXCEPT
                         !.built = TRUE, !.variant = "module", !.tree = tree,
                         !.wrapped = TRUE, !.vals = vals, !.selecting = TRUE,
                         !.payload = applyTransform(conf.data_transform_func, tree)]
       IN  IF checkSubmitEvent(ev).threw
           THEN /\ outcome' = [Begin("submit", f) EXCEPT !.threwAt = "event"]
                /\ UNCHANGED <<vals_struct, last_action_form, first, http>>
           ELSE IF ~(Truthy(url) /\ Truthy(method))
           THEN /\ outcome' = Begin("submit", f)
                /\ UNCHANGED <<vals_struct, last_action_form, first, http>>
           ELSE IF func.threw
           THEN /\ outcome' = [Begin("submit", f) EXCEPT !.threwAt = "resolve"]
                /\ UNCHANGED <<vals_struct, last_action_form, first, http>>
           ELSE /\ vals_struct' = tree
                /\ last_action_form' = f
                /\ first' = noteBuild("module", f, FALSE, tree)
                /\ IF method \in HttpVerbs
                   THEN /\ http' = Append(http, Request("module", f, method, url, vals, func.func))
                        /\ outcome' = [built EXCEPT !.sent = 1]
                   ELSE /\ http' = http
                        /\ outcome' = [built EXCEPT !.threwAt = "transport"]
    /\ UNCHANGED <<builder, phase, input, o, val_objs, elements, fx, before, orphans, seen>>
    /\ UNCHANGED <<doc, conf, calls, inst, regions, rvars>>

\* Informer.trigger(evt), for an event inside the form f, or inside no form
\* (f = 0): handleAction(form) when there is a form.
Trigger(f) ==
    /\ builder = "colon"
    /\ f \in Forms \cup {0}
    /\ Len(calls) < MaxCalls
    /\ LET func == getAttribute(doc[f], conf.elem_trigger_attr)
           winf == stringToFunction(func)
       IN  IF f = 0 \/ ~Truthy(func)
           THEN /\ outcome' = Begin("trigger", f)
                /\ UNCHANGED <<last_action_form, calls>>
           ELSE IF winf.threw
           THEN /\ outcome' = [Begin("trigger", f) EXCEPT !.threwAt = "resolve"]
                /\ UNCHANGED <<last_action_form, calls>>
           ELSE IF winf.func = False
           THEN /\ outcome' = Begin("trigger", f)
                /\ UNCHANGED <<last_action_form, calls>>
           ELSE /\ last_action_form' = f
                /\ calls' = Append(calls, [func |-> winf.func, form |-> f, request |-> 0])
                /\ outcome' = [Begin("trigger", f) EXCEPT !.invoked = 1]
    /\ UNCHANGED <<bvars, doc, conf, http, inst, first, regions, rvars>>

\* Http answers the i-th request, one of the module's: callback(response)
\* when the callback is a function.
Respond(i) ==
    /\ i \in 1..Len(http)
    /\ http[i].by = "module"
    /\ ~http[i].answered
    /\ Len(calls) < MaxCalls
    /\ IF Truthy(http[i].callback)
       THEN /\ calls' = Append(calls, [func |-> http[i].callback, form |-> 0, request |-> i])
            /\ http' = [http EXCEPT ![i].answered = TRUE,
                                    ![i].went = Went("callback", http[i].callback)]
       ELSE /\ calls' = calls
            /\ http' = [http EXCEPT ![i].answered = TRUE, ![i].went = Went("none", << >>)]
    /\ UNCHANGED <<bvars, doc, conf, last_action_form, inst, outcome, first, regions, rvars>>

\* handleTheReturn(ret), bound to the instance `this`, on a page whose
\* elements hold `regs`: the instance and the elements afterwards, and where
\* the response has gone.  The forms of the model name no function of the
\* instance but blammo, which logs, and successor.  The responses hold no
\* script element.
handleTheReturn(this0, ret, regs) ==
    LET this   == [this0 EXCEPT !.return = StrV(ret)]
        form   == doc[this.caller]
        act    == getAttribute(form, "onreturn")
        check  == getAttribute(form, "terminal")
        target == getElementById(check)
    IN  IF this.caller = 0
        THEN [this |-> this, regions |-> regs, went |-> Went("threw", << >>)]
        ELSE IF Truthy(act) /\ act \in InstMethods
        THEN IF act = <<"successor">> /\ target = Null
             THEN [this |-> this, regions |-> regs, went |-> Went("threw", act)]
             ELSE [this    |-> reset(this),
                   regions |-> IF act = <<"successor">>
                               THEN [regs EXCEPT ![target] = ret]
                               ELSE regs,
                   went    |-> Went("method", act)]
        ELSE IF Truthy(check) /\ target # Null
        THEN [this    |-> reset(this),
              regions |-> [regs EXCEPT ![target] = ret],
              went    |-> Went("terminal", target)]
        ELSE [this    |-> reset(this),
              regions |-> [regs EXCEPT ![this.target] = ret],
              went    |-> Went("target", this.target)]

\* Http answers the i-th request, one of the constructor's: the callback is
\* handleTheReturn, bound to the instance.
InstRespond(i) ==
    /\ i \in 1..Len(http)
    /\ http[i].by = "constructor"
    /\ ~http[i].answered
    /\ LET after == handleTheReturn(inst, ResponseOf(i), regions)
       IN  /\ inst' = after.this
           /\ regions' = after.regions
           /\ http' = [http EXCEPT ![i].answered = TRUE, ![i].went = after.went]
    /\ UNCHANGED <<bvars, doc, conf, last_action_form, calls, outcome, first, rvars>>

\* The constructor's handleEvent(evt) for a submit event inside the form f:
\* procCaller(), with getCallerFromEvent() finding f.  The forms of the
\* model name no function of the instance but blammo, which logs.
InstSubmit(f) ==
    /\ builder = "fix"
    /\ f \in Forms
    /\ Len(http) < MaxRequests
    /\ LET form     == doc[f]
           act      == getAttribute(form, "action")
           st       == loopOnElements(buildElementsArray(form.elems))
           name     == getAttribute(form, "name")
           id       == getAttribute(form, "id")
           key      == IF Truthy(name) THEN name ELSE IF Truthy(id) THEN id ELSE <<"json">>
           payload  == StrV(stringify(st.values))
           passData == wrapUnder(key, payload)
           method   == getAttribute(form, "method")
           built    == [Begin("inst.submit", f) EXCEPT
                           !.built = TRUE, !.variant = "constructor",
                           !.buildThrew = st.threw, !.tree = st.values]
           wrapped  == [built EXCEPT !.wrapped = TRUE, !.payload = payload,
                                     !.vals = passData, !.selecting = TRUE]
       IN  IF Truthy(act) /\ act \in InstMethods
           THEN /\ inst' = [inst EXCEPT !.caller = f]
                /\ outcome' = Begin("inst.submit", f)
                /\ UNCHANGED <<fx, orphans, first, http>>
           ELSE /\ fx' = st
                /\ first' = noteBuild("constructor", f, st.threw, st.values)
                /\ IF st.threw
                   THEN /\ inst' = [inst EXCEPT !.caller = f]
                        /\ outcome' = [built EXCEPT !.threwAt = "build"]
                        /\ UNCHANGED <<orphans, http>>
                   ELSE /\ orphans' = displayErrors(st, buildElementsArray(form.elems))
                        /\ inst' = [inst EXCEPT !.caller = f, !.values = ObjV(st.values)]
                        /\ IF method = Null
                           THEN /\ outcome' = [wrapped EXCEPT !.threwAt = "method"]
                                /\ http' = http
                           ELSE IF toLowerCase(method) \in HttpVerbs
                           THEN /\ http' = Append(http, Request("constructor", f,
                                               toLowerCase(method), act, passData,
                                               <<"handleTheReturn">>))
                                /\ outcome' = [wrapped EXCEPT !.sent = 1]
                           ELSE /\ http' = http
                                /\ outcome' = [wrapped EXCEPT !.threwAt = "transport"]
    /\ UNCHANGED <<builder, phase, input, o, val_objs, vals_struct, elements, before, seen>>
    /\ UNCHANGED <<doc, conf, last_action_form, calls, regions, rvars>>

\* addListeners: the inputs of a form that listen for change events, those
\* with an autosubmit attribute.  On the pages of the model the first input
\* of every form has one.
autosubmit(form) == IF Len(form.elems) > 0 THEN {1} ELSE {}

\* The constructor's handleEvent(evt) for a change event on the input e of
\* the form f: actOnCaller(), with getCallerFromEvent() finding f.  It calls
\* the function of the instance that the form's action names, if it names
\* one (blammo, which logs), and does nothing else.
InstChange(f, e) ==
    /\ builder = "fix"
    /\ f \in Forms
    /\ e \in autosubmit(doc[f])
    /\ inst' = [inst EXCEPT !.caller = f]
    /\ outcome' = Begin("inst.change", f)
    /\ UNCHANGED <<bvars, doc, conf, last_action_form, http, calls, first, regions, rvars>>

Next ==
    \/ \E f \in Forms, ev \in WindowEvents : Collect(f, ev)
    \/ \E f \in Forms, ev \in WindowEvents : Submit(f, ev)
    \/ \E f \in Forms \cup {0} : Trigger(f)
    \/ \E i \in 1..Len(http) : Respond(i)
    \/ \E i \in 1..Len(http) : InstRespond(i)
    \/ \E f \in Forms : InstSubmit(f)
    \/ \E f \in Forms : \E e \in autosubmit(doc[f]) : InstChange(f, e)

(***************************************************************************)
(* Pages                                                                   *)
(***************************************************************************)

\* The form of the documentation: email, password and the submit button.
ExampleElems ==
    <<Elem("input", <<"email">>, <<"what@evv.err">>, Null, Null),
      Elem("input", <<"password">>, <<"so clever">>, Null, Null),
      Elem("input", <<"submit">>, <<"Make it so">>, Null, Null)>>

\* Groups, an empty value, and tags out of document order.
GroupedElems ==
    <<Elem("textarea", <<"note">>, << >>, Null, Null),
      Elem("input", <<"email">>, <<"e">>, <<"user", ":", "login">>, Null),
      Elem("select", <<"role">>, <<"admin">>, <<"user">>, Null)>>

\* A pargroup that names a key which holds a string.
PargroupElems ==
    <<Elem("input", A, <<"v">>, A, B),
      Elem("input", B, <<"v">>, A, Null)>>

ElemLists == {ExampleElems, GroupedElems}

FormNames == {Null, << >>, <<"new-user">>}

FormIds == {Null, <<"f1">>}

FormActions == {Null, <<"/api/users">>}

FormMethods == {Null, <<"post">>, <<"POST">>}

FormCallbacks == {Null, <<"handler">>, <<"nofunc">>}

Attrs(name, id, action, method, onreturn) ==
    [name |-> name, id |-> id, action |-> action, method |-> method, onreturn |-> onreturn]

\* The form with a terminal attribute added.
WithTerminal(form, id) == [form EXCEPT !.attrs = ("terminal" :> id) @@ form.attrs]

\* Every form the attribute values above make.
AllForms ==
    {Form(Attrs(n, i, a, m, c), es) :
        n \in FormNames, i \in FormIds, a \in FormActions, m \in FormMethods,
        c \in FormCallbacks, es \in ElemLists}

\* The forms of the pages that hold two forms.
PageForms ==
    <<WithTerminal(
          Form(Attrs(<<"new-user">>, Null, <<"/api/users">>, <<"post">>, <<"handler">>),
               ExampleElems),
          <<"out">>),
     Form(Attrs(Null, <<"f1">>, <<"/api/users", ".", "php">>, <<"POST">>,
                <<"App", ".", "done">>),
          GroupedElems),
     Form(Attrs(Null, Null, <<"handler">>, Null, Null), PargroupElems),
     Form(Attrs(<< >>, Null, <<"blammo">>, <<"post">>, <<"Nope", ".", "done">>),
          GroupedElems),
     WithTerminal(
          Form(Attrs(Null, Null, <<"/api/users">>, <<"get">>, <<"successor">>),
               ExampleElems),
          <<"gone">>)>>

\* Two of them, next to each other.
Pages ==
    {<<PageForms[i], PageForms[(i % Len(PageForms)) + 1]>> : i \in 1..Len(PageForms)}

\* The configurations the source can be given: conf is private to the
\* module, set where it is declared.
Confs ==
    {[DefaultConf EXCEPT !.unnamed_form_key = k, !.data_transform_func = t] :
        k \in {Null, <<"json">>}, t \in {"JSON.stringify", "null"}}

InitSystem(pages) ==
    /\ builder \in {"colon", "fix"}
    /\ phase = "idle"
    /\ input = << >>
    /\ o = 0
    /\ val_objs = << >>
    /\ vals_struct = EmptyObject
    /\ elements = << >>
    /\ fx = NewClosure
    /\ before = EmptyObject
    /\ orphans = << >>
    /\ seen = {}
    /\ doc \in pages
    /\ conf \in IF builder = "colon" THEN Confs ELSE {DefaultConf}
    /\ last_action_form = 0
    /\ http = << >>
    /\ calls = << >>
    /\ inst = NewInstance
    /\ outcome = NoOutcome
    /\ first = [v \in Variants |-> [g \in 1..Len(doc) |-> NoBuild]]
    /\ regions = NoContent
    /\ conf_bk = JSNull
    /\ walk = NoWalk
    /\ history = << >>
    /\ clearing = NoClearing

\* A page of two forms.
Init == InitSystem(Pages)

Spec == Init /\ [][Next]_vars

\* A page of one form.
InitSubmit == InitSystem({<<f>> : f \in AllForms})

SpecSubmit == InitSubmit /\ [][Next]_vars

(***************************************************************************)
(* Form resolution: getNearestParent(source, 'form') of the module and     *)
(* getCallerFromEvent() of the constructor, one turn of the loop at a      *)
(* time.  A node is [tagName, parentNode]; a node without a tagName (the   *)
(* document, a text node) has tagName Null; parentNode is a node's index,  *)
(* or NoNode for null.                                                     *)
(***************************************************************************)

NoNode == 0 - 1

Node(tagName, parentNode) == [tagName |-> tagName, parentNode |-> parentNode]

\* The nodes every page has: the document, <html> and document.body.
Document == 0

Html == 1

Body == 2

\* The pages: three more nodes, each attached below an earlier node or
\* detached; a text node has no children.
AllDoms ==
    {[n \in 0..5 |->
        CASE n = Document -> Node(Null, NoNode)
          [] n = Html     -> Node(<<"HTML">>, Document)
          [] n = Body     -> Node(<<"BODY">>, Html)
          [] n = 3        -> Node(t3, p3)
          [] n = 4        -> Node(t4, p4)
          [] n = 5        -> Node(t5, p5)] :
        t3 \in {<<"DIV">>, <<"FORM">>}, p3 \in {NoNode, Body},
        t4 \in {<<"DIV">>, <<"FORM">>, Null}, p4 \in {NoNode, Body, 3},
        t5 \in {<<"INPUT">>, Null}, p5 \in {NoNode, Body, 3, 4}}

Doms == {dom \in AllDoms : \A n \in 3..5 :
            dom[n].parentNode # NoNode => dom[dom[n].parentNode].tagName # Null}

InitResolve ==
    /\ builder \in {"colon", "fix"}
    /\ phase = "idle"
    /\ input = << >>
    /\ o = 0
    /\ val_objs = << >>
    /\ vals_struct = EmptyObject
    /\ elements = << >>
    /\ fx = NewClosure
    /\ before = EmptyObject
    /\ orphans = << >>
    /\ seen = {}
    /\ doc = << >>
    /\ conf = DefaultConf
    /\ last_action_form = 0
    /\ http = << >>
    /\ calls = << >>
    /\ inst = NewInstance
    /\ outcome = NoOutcome
    /\ first = << >>
    /\ regions = NoContent
    /\ conf_bk = JSNull
    /\ history = << >>
    /\ clearing = NoClearing
    /\ \E dom \in Doms, source \in 0..5 :
          walk = [status |-> "walking", dom |-> dom, source |-> source,
                  elem |-> source, result |-> NoNode]

\* getNearestParent: one test of the while condition, and the body of the
\* loop or the return that follows it.  Reading elem.tagName when elem is
\* null is a TypeError.
getNearestParentTurn ==
    /\ builder = "colon"
    /\ walk.status = "walking"
    /\ LET elem == walk.elem
           tag  == walk.dom[elem].tagName
       IN  IF elem = NoNode
           THEN walk' = [walk EXCEPT !.status = "threw"]
           ELSE IF tag = Null \/ (toLowerCase(tag) # <<"form">> /\ elem # Body)
           THEN walk' = [walk EXCEPT !.elem = walk.dom[elem].parentNode]
           ELSE walk' = [walk EXCEPT !.status = "returned",
                                     !.result = IF elem = Body THEN NoNode ELSE elem]
    /\ UNCHANGED <<bvars, svars, conf_bk, history, clearing>>

\* getCallerFromEvent: the same for the constructor's loop.  Reading
\* this.caller.tagName when this.caller is null, and calling toLowerCase on
\* the tagName of a node that has none, are TypeErrors.
getCallerFromEventTurn ==
    /\ builder = "fix"
    /\ walk.status = "walking"
    /\ LET caller == walk.elem
           tag    == walk.dom[caller].tagName
       IN  IF caller = Body
           THEN walk' = [walk EXCEPT !.status = "returned", !.result = NoNode]
           ELSE IF caller = NoNode \/ tag = Null
           THEN walk' = [walk EXCEPT !.status = "threw"]
           ELSE IF toLowerCase(tag) # <<"form">>
           THEN walk' = [walk EXCEPT !.elem = walk.dom[caller].parentNode]
           ELSE walk' = [walk EXCEPT !.status = "returned", !.result = caller]
    /\ UNCHANGED <<bvars, svars, conf_bk, history, clearing>>

NextResolve ==
    \/ getNearestParentTurn
    \/ getCallerFromEventTurn

SpecResolve == InitResolve /\ [][NextResolve]_vars

(***************************************************************************)
(* The configuration of the later module (readme.md): setConf and          *)
(* resetConf.  conf holds the active configuration, conf_bk the backup or  *)
(* null, history the calls made so far with what each returned and left.   *)
(***************************************************************************)

\* var conf = {...} of the later module.
ReadmeConf ==
    [elem_attr_trigger   |-> "action",
     elem_attr_callback  |-> "onreturn",
     elem_attr_fixed     |-> "disabled",
     data_transform_func |-> "JSON.stringify",
     unnamed_form_key    |-> Null,
     log                 |-> FALSE]

\* Utils.sieve(conf, conf_obj): a new object with the keys of the first,
\* each with the value the second has for it, or else the first's.
sieve(ref, obj) ==
    [k \in DOMAIN ref |-> IF k \in DOMAIN obj THEN obj[k] ELSE ref[k]]

\* makeNewConf(conf_obj), on the module's variables g = [conf, conf_bk].
makeNewConfNoBackup(g, conf_obj) ==
    [g EXCEPT !.conf = sieve(g.conf, conf_obj)]

makeNewConfKeepFirst(g, conf_obj) ==
    [conf    |-> sieve(g.conf, conf_obj),
     conf_bk |-> IF g.conf_bk = JSNull THEN g.conf ELSE g.conf_bk]

makeNewConf(g, conf_obj) ==
    [conf    |-> sieve(g.conf, conf_obj),
     conf_bk |-> g.conf]

\* resetConfToDefault(), on the same.  An object is truthy, null is not.
resetConfToDefault(g) ==
    IF g.conf_bk # JSNull
    THEN [conf |-> g.conf_bk, conf_bk |-> JSNull]
    ELSE g

\* The objects handed to setConf: some options, known or not.
ConfObjects ==
    {[log |-> TRUE],
     [unnamed_form_key |-> <<"json">>],
     [elem_attr_trigger |-> "data-fn", bogus |-> "x"],
     [bogus |-> "x"],
     [log |-> FALSE, unnamed_form_key |-> Null]}

MaxConfCalls == 4

InitConf ==
    /\ builder \in {"colon"}
    /\ phase = "idle"
    /\ input = << >>
    /\ o = 0
    /\ val_objs = << >>
    /\ vals_struct = EmptyObject
    /\ elements = << >>
    /\ fx = NewClosure
    /\ before = EmptyObject
    /\ orphans = << >>
    /\ seen = {}
    /\ doc = << >>
    /\ last_action_form = 0
    /\ http = << >>
    /\ inst = NewInstance
    /\ outcome = NoOutcome
    /\ first = << >>
    /\ regions = NoContent
    /\ walk = NoWalk
    /\ history = << >>
    /\ clearing = NoClearing
    /\ conf = ReadmeConf
    /\ conf_bk = JSNull
    /\ calls = << >>

\* What a call leaves in the log: its name and argument, what it returned,
\* and the module's variables after it.
ConfCall(op, arg, g) ==
    [op |-> op, arg |-> arg, ret |-> g.conf, conf |-> g.conf, conf_bk |-> g.conf_bk]

\* Informer.setConf(new_conf)
SetConf(new_conf) ==
    /\ Len(history) < MaxConfCalls
    /\ LET g == makeNewConf([conf |-> conf, conf_bk |-> conf_bk], new_conf)
       IN  /\ conf' = g.conf
           /\ conf_bk' = g.conf_bk
           /\ history' = Append(history, ConfCall("setConf", new_conf, g))
    /\ UNCHANGED <<bvars, doc, last_action_form, http, calls, inst, outcome, first, regions, walk, clearing>>

\* Informer.resetConf()
ResetConf ==
    /\ Len(history) < MaxConfCalls
    /\ LET g == resetConfToDefault([conf |-> conf, conf_bk |-> conf_bk])
       IN  /\ conf' = g.conf
           /\ conf_bk' = g.conf_bk
           /\ history' = Append(history, ConfCall("resetConf", << >>, g))
    /\ UNCHANGED <<bvars, doc, last_action_form, http, calls, inst, outcome, first, regions, walk, clearing>>

NextConf ==
    \/ \E new_conf \in ConfObjects : SetConf(new_conf)
    \/ ResetConf

SpecConf == InitConf /\ [][NextConf]_vars

(***************************************************************************)
(* clear(form) of the later module (readme.md): clearFormValues, one turn  *)
(* of the inner loop, or one step of the outer, at a time.                 *)
(***************************************************************************)

\* An element of a form to clear: its tag, its value, the attributes it has.
ClearElem(tag, value, attrs) == [tag |-> tag, value |-> value, attrs |-> attrs]

MaxClearElems == 3

ClearElems ==
    {ClearElem(tag, <<"v">>, attrs) :
        tag \in {"input", "select", "textarea", "button"},
        attrs \in {{}, {"disabled"}, {"readonly"}}}

\* The configurations a clear runs under: the default, or another fixed attribute.
ClearConfs == {ReadmeConf, sieve(ReadmeConf, [elem_attr_fixed |-> "readonly"])}

\* The positions in the form of the elements with the tag, in document order:
\* form.getElementsByTagName(tag), as a live collection of the form's elements.
RECURSIVE positionsFrom(_, _, _)
positionsFrom(elems, tag, k) ==
    IF k > Len(elems)
    THEN << >>
    ELSE (IF elems[k].tag = tag THEN <<k>> ELSE << >>) \o positionsFrom(elems, tag, k + 1)

positionsByTagName(elems, tag) == positionsFrom(elems, tag, 1)

InitClear ==
    /\ builder \in {"colon"}
    /\ phase = "idle"
    /\ input = << >>
    /\ o = 0
    /\ val_objs = << >>
    /\ vals_struct = EmptyObject
    /\ elements = << >>
    /\ fx = NewClosure
    /\ before = EmptyObject
    /\ orphans = << >>
    /\ seen = {}
    /\ doc = << >>
    /\ last_action_form = 0
    /\ http = << >>
    /\ calls = << >>
    /\ inst = NewInstance
    /\ outcome = NoOutcome
    /\ first = << >>
    /\ regions = NoContent
    /\ walk = NoWalk
    /\ history = << >>
    /\ conf_bk = JSNull
    /\ conf \in ClearConfs
    /\ \E form \in SeqsUpTo(ClearElems, MaxClearElems) :
          clearing = [status |-> "loop", form |-> form, elems |-> form, o |-> 1, i |-> 1]

\* clearFormValues: with o within input_types, either the inner loop is over
\* and o steps on, or the i-th element with that tag is tested: when it has
\* not the fixed attribute, elems[1].value = '' is carried out, on the second
\* element with that tag, and is a TypeError when there is no second one.
\* With o beyond input_types the function returns.
clearFormValuesTurn ==
    /\ clearing.status = "loop"
    /\ LET m     == Len(input_types)
           elems == positionsByTagName(clearing.elems, input_types[clearing.o])
           n     == Len(elems)
           i     == clearing.i
       IN  IF clearing.o > m
           THEN clearing' = [clearing EXCEPT !.status = "returned"]
           ELSE IF i > n
           THEN clearing' = [clearing EXCEPT !.o = @ + 1, !.i = 1]
           ELSE IF conf.elem_attr_fixed \in clearing.elems[elems[i]].attrs
           THEN clearing' = [clearing EXCEPT !.i = @ + 1]
           ELSE IF n < 2
           THEN clearing' = [clearing EXCEPT !.status = "threw"]
           ELSE clearing' = [clearing EXCEPT !.elems[elems[2]].value = << >>,
                                             !.i = @ + 1]
    /\ UNCHANGED <<bvars, svars, conf_bk, walk, history>>

NextClear == clearFormValuesTurn

SpecClear == InitClear /\ [][NextClear]_vars

(***************************************************************************)
(* Extraction alone: elemsToObjs(form) of the module and                   *)
(* buildElementsArray() of the constructor, on forms whose elements have   *)
(* any of the tags, and others.                                            *)
(***************************************************************************)

MaxExtract == 3

ExtractElems ==
    {Elem(tag, A, <<"v">>, g, p) :
        tag \in {"input", "select", "textarea", "button"},
        g \in {Null, A}, p \in {Null, B}}

InitExtract ==
    /\ builder \in {"colon", "fix"}
    /\ phase = "extract"
    /\ input \in SeqsUpTo(ExtractElems, MaxExtract)
    /\ o = 0
    /\ val_objs = << >>
    /\ vals_struct = EmptyObject
    /\ elements = << >>
    /\ fx = NewClosure
    /\ before = EmptyObject
    /\ orphans = << >>
    /\ seen = {}
    /\ doc = << >>
    /\ conf = DefaultConf
    /\ last_action_form = 0
    /\ http = << >>
    /\ calls = << >>
    /\ inst = NewInstance
    /\ outcome = NoOutcome
    /\ first = << >>
    /\ regions = NoContent
    /\ conf_bk = JSNull
    /\ walk = NoWalk
    /\ history = << >>
    /\ clearing = NoClearing

\* var val_objs = elemsToObjs(form)
elemsToObjsCall ==
    /\ builder = "colon" /\ phase = "extract"
    /\ val_objs' = elemsToObjs(input)
    /\ phase' = "extracted"
    /\ UNCHANGED <<builder, input, o, vals_struct, elements, fx, before, orphans, seen, svars, rvars>>

\* buildElementsArray()
buildElementsArrayCall ==
    /\ builder = "fix" /\ phase = "extract"
    /\ elements' = buildElementsArray(input)
    /\ phase' = "extracted"
    /\ UNCHANGED <<builder, input, o, val_objs, vals_struct, fx, before, orphans, seen, svars, rvars>>

NextExtract ==
    \/ elemsToObjsCall
    \/ buildElementsArrayCall

SpecExtract == InitExtract /\ [][NextExtract]_vars

(***************************************************************************)
(* The colon-path builder on group strings with empty segments.            *)
(***************************************************************************)

\* Group strings with a leading, a doubled, a trailing and a lone colon.
MalformedGroups ==
    {<<":", "a">>, <<"a", ":", ":", "b">>, <<"a", ":">>, <<":">>}

MalformedElems ==
    {Elem("input", n, <<"v">>, g, Null) :
        n \in {A, B}, g \in MalformedGroups \cup {Null, A}}

InitMalformed ==
    /\ builder = "colon"
    /\ input \in SeqsUpTo(MalformedElems, MaxElems)
    /\ phase = "loop"
    /\ o = 1
    /\ val_objs = elemsToObjs(input)
    /\ vals_struct = EmptyObject
    /\ elements = << >>
    /\ fx = NewClosure
    /\ before = EmptyObject
    /\ orphans = << >>
    /\ seen = {}
    /\ doc = << >>
    /\ conf = DefaultConf
    /\ last_action_form = 0
    /\ http = << >>
    /\ calls = << >>
    /\ inst = NewInstance
    /\ outcome = NoOutcome
    /\ first = << >>
    /\ regions = NoContent
    /\ conf_bk = JSNull
    /\ walk = NoWalk
    /\ history = << >>
    /\ clearing = NoClearing

NextMalformed ==
    \/ groupValuesTurn
    \/ groupValuesReturn

SpecMalformed == InitMalformed /\ [][NextMalformed]_vars

(***************************************************************************)
(* The fixpoint builder on longer forms of grouped records, where a key    *)
(* can come to stand in several branches of the tree.                      *)
(***************************************************************************)

MaxBranchElems == 4

BranchElems ==
    {Elem("input", n, <<"v">>, gp[1], gp[2]) :
        n \in {A, B}, gp \in {<<A, Null>>, <<B, Null>>, <<B, A>>, <<A, B>>}}

InitBranches ==
    /\ builder = "fix"
    /\ input \in SeqsUpTo(BranchElems, MaxBranchElems)
    /\ phase = "loop"
    /\ o = 1
    /\ val_objs = << >>
    /\ vals_struct = EmptyObject
    /\ elements = buildElementsArray(input)
    /\ fx = NewClosure
    /\ before = EmptyObject
    /\ orphans = << >>
    /\ seen = {}
    /\ doc = << >>
    /\ conf = DefaultConf
    /\ last_action_form = 0
    /\ http = << >>
    /\ calls = << >>
    /\ inst = NewInstance
    /\ outcome = NoOutcome
    /\ first = << >>
    /\ regions = NoContent
    /\ conf_bk = JSNull
    /\ walk = NoWalk
    /\ history = << >>
    /\ clearing = NoClearing

NextBranches ==
    \/ loopOnElementsTurn
    \/ loopOnElementsAgain
    \/ gatherReturn

SpecBranches == InitBranches /\ [][NextBranches]_vars

(***************************************************************************)
(* Properties of the builders                                              *)
(***************************************************************************)

\* The tree the running builder has built so far.
Result == IF builder = "colon" THEN vals_struct ELSE fx.values

NRecs == IF builder = "colon" THEN Len(val_objs) ELSE Len(elements)

\* The i-th element record, in one shape for both builders.
Rec(i) ==
    IF builder = "colon"
    THEN [name |-> val_objs[i].name, value |-> val_objs[i].value,
          group |-> val_objs[i].group, pargroup |-> False]
    ELSE [name |-> elements[i].name, value |-> elements[i].val,
          group |-> elements[i].group, pargroup |-> elements[i].pargroup]

\* The path a record's value is written at by the colon-path builder.
FullPath(r) ==
    (IF Truthy(r.group) THEN split(r.group, ":") ELSE << >>) \o <<ToKey(r.name)>>

Comparable(p, q) == IsPrefix(p, q) \/ IsPrefix(q, p)

Ungrouped == \A i \in 1..NRecs : ~Truthy(Rec(i).group) /\ ~Truthy(Rec(i).pargroup)

LastNamed(k) ==
    CHOOSE i \in 1..NRecs :
        ToKey(Rec(i).name) = k /\ \A j \in (i + 1)..NRecs : ToKey(Rec(j).name) # k

\* C1: when no record has a group or a pargroup, the tree built (by either
\* builder) holds exactly one root leaf per record name, with the value of
\* the last record of that name, and nothing else.
C1_FlatTree ==
    (phase = "done" /\ Ungrouped) =>
        Props(Result) =
            {Leaf(<<k>>, Rec(LastNamed(k)).value) :
                k \in {ToKey(Rec(i).name) : i \in 1..NRecs}}

C1_Witness ==
    /\ phase = "done" /\ builder = "fix" /\ Ungrouped /\ NRecs = 3
    /\ \E i, j \in 1..NRecs :
          i < j /\ Rec(i).name = Rec(j).name /\ Rec(i).value # Rec(j).value
    /\ \E i, j \in 1..NRecs : Rec(i).name # Rec(j).name

\* C2: the colon-path builder writes the value of a record with group
\* s1:...:sn and name x as a leaf at s1/.../sn/x, below objects at every
\* prefix, and this turn of the loop keeps every property whose path is
\* neither a prefix nor an extension of that path (so 'a:b' and 'a:c' leave
\* each other's entries alone); in the returned tree every grouped record
\* whose path no later record writes on, above or below still has its value.
C2_ColonPath ==
    builder = "colon" =>
        /\ (o > 1 /\ Truthy(val_objs[o - 1].group)) =>
              LET f == FullPath(val_objs[o - 1])
              IN  /\ IsLeaf(vals_struct, f)
                  /\ At(vals_struct, f).val = val_objs[o - 1].value
                  /\ \A k \in 1..(Len(f) - 1) : IsObject(vals_struct, SubSeq(f, 1, k))
                  /\ \A e \in Props(before) :
                        ~Comparable(e.path, f) => e \in Props(vals_struct)
        /\ phase = "done" =>
              \A i \in 1..NRecs :
                  (/\ Truthy(Rec(i).group)
                   /\ \A j \in (i + 1)..NRecs :
                         ~Comparable(FullPath(Rec(j)), FullPath(Rec(i))))
                  => (/\ IsLeaf(vals_struct, FullPath(Rec(i)))
                      /\ At(vals_struct, FullPath(Rec(i))).val = Rec(i).value)

C2_Witness ==
    /\ builder = "colon" /\ phase = "done"
    /\ \E i, j \in 1..NRecs :
          /\ Rec(i).group = <<"a", ":", "b">> /\ Rec(j).group = <<"a", ":", "a">>
          /\ IsLeaf(vals_struct, <<A, B, ToKey(Rec(i).name)>>)
          /\ IsLeaf(vals_struct, <<A, A, ToKey(Rec(j).name)>>)

\* The inputs C3 is about: no record has a pargroup, and no record without a
\* group is named like a group.
C3_Scope ==
    \A i \in 1..NRecs :
        /\ ~Truthy(Rec(i).pargroup)
        /\ ~Truthy(Rec(i).group) =>
              \A j \in 1..NRecs : Truthy(Rec(j).group) => Rec(j).group # ToKey(Rec(i).name)

NeverKeyed == {i \in 1..NRecs : Truthy(Rec(i).pargroup) /\ Rec(i).pargroup \notin seen}

\* The orphans: the records the build has not consumed.
Orphans == (1..NRecs) \ fx.deleted

\* The elements array without the records at the indexes in S.
Without(S) ==
    LET kept == SelectSeq([i \in 1..NRecs |-> [at |-> i, e |-> elements[i]]],
                          LAMBDA x : x.at \notin S)
    IN  [i \in 1..Len(kept) |-> kept[i].e]

\* The indexes in S, ascending.
RECURSIVE Ascending(_)
Ascending(S) ==
    IF S = {}
    THEN << >>
    ELSE LET m == CHOOSE x \in S : \A y \in S : x <= y
         IN  <<m>> \o Ascending(S \ {m})

\* What C4 says of a build that has completed: every record whose pargroup
\* was never a key is an orphan, the tree is the tree of the records that
\* are not orphans, and the diagnostic lists the pargroup of each orphan,
\* once, in order.
C4_AtReturn ==
    /\ NeverKeyed \subseteq Orphans
    /\ Props(fx.values) = Props(loopOnElements(Without(Orphans)).values)
    /\ orphans = [k \in 1..Cardinality(Orphans) |-> Rec(Ascending(Orphans)[k]).pargroup]

\* C4: fixpoint builder: every record whose pargroup never occurs as a key
\* is an orphan, the build still completes and returns the tree of the
\* other records, and the diagnostic has one entry per orphan.
C4_OrphansReported ==
    builder = "fix" => /\ phase # "threw"
                       /\ phase = "done" => C4_AtReturn

\* The same, of the builds that do return.
C4_WhenReturned == (builder = "fix" /\ phase = "done") => C4_AtReturn

(***************************************************************************)
(* Properties of the public operations                                     *)
(***************************************************************************)

\* The form the latest call was given.
CallForm == doc[outcome.form]

WrapKey(form, fallback) ==
    IF form.attrs.name \notin {Null, << >>}
    THEN form.attrs.name
    ELSE IF form.attrs.id \notin {Null, << >>} THEN form.attrs.id ELSE fallback

\* The fallback key of the variant that made the latest call.
Fallback == IF outcome.variant = "module" THEN conf.unnamed_form_key ELSE <<"json">>

\* The properties of { key: payload }.
WrappedProps(key, payload) ==
    IF payload.k = "string"
    THEN {Leaf(<<key>>, payload.s)}
    ELSE {Obj(<<key>>)} \cup {[e EXCEPT !.path = <<key>> \o e.path] : e \in Props(payload.t)}

\* C6: what toObject (and the constructor's submitTheValues) hands on is the
\* payload under the form's name when that is not empty, else under its id
\* when that is not empty, else under the fallback key when one is set, and
\* the payload itself, unwrapped, when there is none of the three; a request
\* that is sent carries exactly that.
C6_Wrapping ==
    outcome.wrapped =>
        LET key == WrapKey(CallForm, Fallback)
        IN  /\ IF key \in {Null, False, << >>}
               THEN outcome.vals = outcome.payload
               ELSE /\ outcome.vals.k = "object"
                    /\ Props(outcome.vals.t) = WrappedProps(key, outcome.payload)
            /\ outcome.sent = 1 => http[Len(http)].params = outcome.vals

C6_Witness ==
    /\ outcome.wrapped /\ outcome.variant = "module" /\ outcome.sent = 1
    /\ CallForm.attrs.name = << >> /\ CallForm.attrs.id = <<"f1">>
    /\ conf.unnamed_form_key = <<"json">>
    /\ OwnKeys(http[Len(http)].params.t, << >>) = <<<<"f1">>>>

\* The data object the documentation shows for its example form.
ExampleObject ==
    <<Obj(<<<<"new-user">>>>),
      Leaf(<<<<"new-user">>, <<"email">>>>, <<"what@evv.err">>),
      Leaf(<<<<"new-user">>, <<"password">>>>, <<"so clever">>),
      Leaf(<<<<"submit">>>>, <<"Make it so">>)>>

\* C7: for the form named new-user with the inputs email, password and the
\* submit button, the data object the module generates is
\* { new-user: { email, password }, submit: 'Make it so' }.
C7_DocumentedExample ==
    (/\ outcome.wrapped /\ outcome.variant = "module"
     /\ CallForm.attrs.name = <<"new-user">>
     /\ CallForm.elems = ExampleElems)
    => /\ outcome.vals.k = "object"
       /\ Props(outcome.vals.t) = Props(ExampleObject)

\* C8: a submit made from an event handler -- the module's, or the
\* constructor's for a submit event -- of a form without an action or
\* without a method sends no request, raises no exception, calls no function
\* and leaves the last form as it was.
C8_NothingWithoutActionOrMethod ==
    (/\ outcome.op \in {"submit", "inst.submit"}
     /\ outcome.threwAt # "event"
     /\ \/ CallForm.attrs.action \in {Null, << >>}
        \/ CallForm.attrs.method \in {Null, << >>})
    => /\ outcome.sent = 0
       /\ outcome.threwAt = "none"
       /\ outcome.invoked = 0
       /\ last_action_form = outcome.lastBefore

\* C9: a submit that comes to select the transport function selects the one
\* named by the lower-cased method: when that names a verb of Http, the
\* request is sent with it, whatever the case of the attribute's letters.
C9_MethodLowerCased ==
    (/\ outcome.selecting
     /\ CallForm.attrs.method # Null
     /\ toLowerCase(CallForm.attrs.method) \in HttpVerbs)
    => /\ outcome.threwAt = "none"
       /\ outcome.sent = 1
       /\ http[Len(http)].verb = toLowerCase(CallForm.attrs.method)

\* C10: with a transform configured, what the module hands to the transport
\* is the transform of the wrapped tree: transform(wrap(tree, key)).
C10_TransformOfWrapped ==
    (/\ outcome.wrapped /\ outcome.variant = "module"
     /\ conf.data_transform_func = "JSON.stringify")
    => LET key     == WrapKey(CallForm, conf.unnamed_form_key)
           wrapped == IF key \in {Null, False, << >>}
                      THEN outcome.tree
                      ELSE Nest(key, outcome.tree)
       IN  /\ outcome.vals = StrV(stringify(wrapped))
           /\ outcome.sent = 1 => http[Len(http)].params = StrV(stringify(wrapped))

\* The latest call is a submit of the module, made from an event handler, of
\* a form whose action and method are there and whose method names a verb.
ModuleSubmitRuns ==
    /\ outcome.op = "submit"
    /\ outcome.threwAt # "event"
    /\ Truthy(CallForm.attrs.action)
    /\ CallForm.attrs.method \in HttpVerbs

\* C11: when the callback attribute of such a form holds a string that does
\* not resolve to a function -- a plain name, or a dotted path whose prefix
\* is not there -- the submit raises nothing and sends the request, with no
\* callback.
C11_UnresolvedCallback ==
    (/\ ModuleSubmitRuns
     /\ Truthy(CallForm.attrs.onreturn)
     /\ split(CallForm.attrs.onreturn, ".") \notin WindowFunctions)
    => /\ outcome.threwAt = "none"
       /\ outcome.sent = 1
       /\ ~Truthy(http[Len(http)].callback)

\* The same, of the names that hold no dot.
C11_PlainName ==
    (/\ ModuleSubmitRuns
     /\ Truthy(CallForm.attrs.onreturn)
     /\ Len(split(CallForm.attrs.onreturn, ".")) = 1
     /\ split(CallForm.attrs.onreturn, ".") \notin WindowFunctions)
    => /\ outcome.threwAt = "none"
       /\ outcome.sent = 1
       /\ ~Truthy(http[Len(http)].callback)

\* Two forms have been submitted before either response has arrived, and
\* both responses have arrived since, in either order.
BothAnswered ==
    /\ Len(http) = 2
    /\ http[1].form # http[2].form
    /\ 1 \in http[2].pending
    /\ http[1].answered /\ http[2].answered

\* Where the response to the i-th request goes when nothing else is going
\* on: the callback the submission resolved for the module, and what
\* handleTheReturn does while the caller is the form of that request.
WentAlone(i) ==
    IF http[i].by = "module"
    THEN IF Truthy(http[i].callback)
         THEN Went("callback", http[i].callback)
         ELSE Went("none", << >>)
    ELSE handleTheReturn([inst EXCEPT !.caller = http[i].form], ResponseOf(i), regions).went

\* C12: when two forms are submitted before either response arrives, each
\* response, in either order of arrival, is handled by the callback, method
\* or element that the attributes of its own form name, and both are handled.
C12_ResponsesIndependent ==
    BothAnswered =>
        \A i \in 1..2 : http[i].went = WentAlone(i)

\* The same, of the module alone.
C12_ModuleResponses ==
    (BothAnswered /\ builder = "colon") =>
        /\ \A i \in 1..2 : http[i].went = WentAlone(i)
        /\ \A i \in 1..2 :
              Truthy(http[i].callback) =>
                  Cardinality({k \in 1..Len(calls) : calls[k].request = i}) = 1

\* Where C13 sends the response to a request of the form `form`, by priority.
PriorityOf(form) ==
    LET act   == IF "onreturn" \in DOMAIN form.attrs THEN form.attrs.onreturn ELSE Null
        check == IF "terminal" \in DOMAIN form.attrs THEN form.attrs.terminal ELSE Null
    IN  IF act \in InstMethods
        THEN Went("method", act)
        ELSE IF check \in ElementIds
             THEN Went("terminal", check)
             ELSE Went("target", <<"work-space">>)

\* What C13 says of the step that handles the response to the i-th request.
DispatchedByPriority(i) ==
    LET w == PriorityOf(doc[http[i].form])
    IN  /\ http'[i].went = w
        /\ w.kind = "terminal" =>
              /\ regions'[w.name] = ResponseOf(i)
              /\ regions'[<<"work-space">>] = regions[<<"work-space">>]
        /\ w.kind = "target" =>
              /\ regions'[<<"work-space">>] = ResponseOf(i)
              /\ regions'[<<"out">>] = regions[<<"out">>]
        /\ w.kind = "method" /\ w.name = <<"blammo">> => regions' = regions
        /\ inst'.caller = 0 /\ inst'.values = JSNull /\ inst'.return = JSNull

\* C13: constructor variant: every response goes to one destination -- the
\* function of the instance the form's onreturn names, else the element the
\* form's terminal names (the default target is then left alone), else the
\* default target -- and afterwards caller, values and return are null.
C13_DispatchPriority ==
    [][\A i \in 1..Len(http) :
          (http[i].by = "constructor" /\ ~http[i].answered /\ http'[i].answered)
          => DispatchedByPriority(i)]_vars

\* The same, of the responses that arrive while the caller is still the form
\* that sent the request and no other request is waiting.
C13_WhenAlone ==
    [][\A i \in 1..Len(http) :
          (/\ http[i].by = "constructor" /\ ~http[i].answered /\ http'[i].answered
           /\ inst.caller = http[i].form
           /\ ~(getAttribute(doc[http[i].form], "onreturn") = <<"successor">>
                /\ getElementById(getAttribute(doc[http[i].form], "terminal")) = Null))
          => DispatchedByPriority(i)]_vars

\* The latest call was one of the module's and has processed its form: a
\* collect; a submit of a form with action and method; a trigger whose
\* attribute names a function of the page.  (A call that fails on
\* window.event before it looks at its form has processed nothing.)
Processed ==
    /\ outcome.threwAt # "event"
    /\ \/ outcome.op = "collect"
       \/ /\ outcome.op = "submit"
          /\ Truthy(CallForm.attrs.action) /\ Truthy(CallForm.attrs.method)
       \/ /\ outcome.op = "trigger" /\ outcome.form # 0
          /\ Truthy(CallForm.attrs.action)
          /\ split(CallForm.attrs.action, ".") \in WindowFunctions

\* C14: form() is null before the first call that processes a form, and
\* after every collect, submit or trigger it is the form of that call when
\* the call has processed it and what it was before otherwise.
C14_LastForm ==
    /\ outcome.op = "none" => last_action_form = 0
    /\ outcome.op \in {"collect", "submit", "trigger"} =>
          last_action_form = IF Processed THEN outcome.form ELSE outcome.lastBefore

\* The same, of the calls that do not fail while they resolve a callback.
C14_WhenResolved ==
    (outcome.op \in {"collect", "submit", "trigger"} /\ outcome.threwAt # "resolve") =>
        last_action_form = IF Processed THEN outcome.form ELSE outcome.lastBefore

\* The step is a call of trigger: the latest call is one, and no response
\* has arrived in the step.
TriggerStep ==
    /\ outcome'.op = "trigger"
    /\ \A i \in 1..Len(http) : i \in DOMAIN http' /\ http'[i].answered = http[i].answered

\* What C15 says of a call of trigger for an event inside the form f (0: no
\* form encloses the target of the event).
TriggerDoes(f) ==
    /\ http' = http
    /\ outcome'.threwAt = "none"
    /\ IF f # 0 /\ Truthy(doc[f].attrs.action)
               /\ split(doc[f].attrs.action, ".") \in WindowFunctions
       THEN /\ calls' = Append(calls, [func |-> doc[f].attrs.action, form |-> f, request |-> 0])
            /\ last_action_form' = f
       ELSE /\ calls' = calls
            /\ last_action_form' = last_action_form

\* C15: trigger does nothing when no form encloses the event's target; calls
\* the function the form's trigger attribute names, once, with the form, and
\* makes the form the last form; and when the attribute names no function
\* calls nothing, sends nothing, leaves the last form and raises nothing.
C15_Trigger == [][TriggerStep => TriggerDoes(outcome'.form)]_vars

\* The same, of the attributes whose dotted prefix, if any, is there.
C15_WhenPrefixThere ==
    [][(TriggerStep /\ outcome'.threwAt # "resolve") => TriggerDoes(outcome'.form)]_vars

\* The nearest form at or above the node n of the page dom, or NoNode when
\* the way up from n meets no form before it ends or reaches document.body.
RECURSIVE NearestForm(_, _)
NearestForm(dom, n) ==
    IF n = NoNode \/ n = Body
    THEN NoNode
    ELSE IF dom[n].tagName = <<"FORM">>
         THEN n
         ELSE NearestForm(dom, dom[n].parentNode)

\* C16: form resolution never raises, and what it returns is the nearest
\* enclosing form, or none -- from every node: inside a form, inside the
\* body, the body, or outside the body (detached, <html>, the document).
C16_ResolutionNeverRaises ==
    /\ walk.status # "threw"
    /\ walk.status = "returned" => walk.result = NearestForm(walk.dom, walk.source)

\* The source is an element, and the way up from it reaches a form or the body.
RECURSIVE UnderBody(_, _)
UnderBody(dom, n) ==
    /\ n # NoNode
    /\ \/ n = Body
       \/ dom[n].tagName = <<"FORM">>
       \/ UnderBody(dom, dom[n].parentNode)

\* The same, of the elements from which the way up reaches a form or the body.
C16_WithinBody ==
    (/\ walk.status # "none"
     /\ walk.dom[walk.source].tagName # Null
     /\ UnderBody(walk.dom, walk.source))
    => C16_ResolutionNeverRaises

\* A submit event in the form would gather its values and issue a request:
\* its action names no function of the instance, its method names a verb.
Submittable(form) ==
    /\ ~(getAttribute(form, "action") \in InstMethods)
    /\ getAttribute(form, "method") # Null
    /\ toLowerCase(getAttribute(form, "method")) \in HttpVerbs

\* C17: a change event on an input with an autosubmit attribute submits the
\* enclosing form: the values are gathered and a request is issued.
C17_ChangeSubmits ==
    (outcome.op = "inst.change" /\ Submittable(doc[outcome.form]))
    => (outcome.built /\ outcome.sent = 1)

\* The configuration and the backup when the k-th call of the log began.
ConfBefore(k) == IF k = 1 THEN ReadmeConf ELSE history[k - 1].conf

BkBefore(k) == IF k = 1 THEN JSNull ELSE history[k - 1].conf_bk

\* C18: with no backup pending, setConf(partial) followed by resetConf()
\* restores every option to what it was before the setConf; a resetConf()
\* with no setConf since the last one changes nothing and returns the
\* current configuration.
C18_RoundTrip ==
    \A k \in 1..Len(history) :
        /\ (/\ k > 1
            /\ history[k].op = "resetConf"
            /\ history[k - 1].op = "setConf"
            /\ BkBefore(k - 1) = JSNull)
           => (history[k].ret = ConfBefore(k - 1) /\ history[k].conf = ConfBefore(k - 1))
        /\ (/\ k > 1
            /\ history[k].op = "resetConf"
            /\ history[k - 1].op = "resetConf")
           => (/\ history[k].conf = ConfBefore(k)
               /\ history[k].conf_bk = BkBefore(k)
               /\ history[k].ret = ConfBefore(k))

\* A setConf that changed an option, from no backup, then two resetConf.
C18_Witness ==
    \E k \in 3..Len(history) :
        /\ history[k].op = "resetConf"
        /\ history[k - 1].op = "resetConf"
        /\ history[k - 2].op = "setConf"
        /\ BkBefore(k - 2) = JSNull
        /\ history[k - 2].conf # ConfBefore(k - 2)
        /\ history[k].conf = ReadmeConf

\* C19: resetConf resets to the default: after one or more setConf calls,
\* resetConf leaves the configuration the module began with.
C19_ResetToDefault ==
    \A k \in 2..Len(history) :
        (history[k].op = "resetConf" /\ history[k - 1].op = "setConf")
        => history[k].conf = ReadmeConf

\* The same of a resetConf that follows one setConf made with no backup
\* pending and the default active.
C19_AfterOneSetConf ==
    \A k \in 2..Len(history) :
        (/\ history[k].op = "resetConf"
         /\ history[k - 1].op = "setConf"
         /\ ConfBefore(k - 1) = ReadmeConf)
        => history[k].conf = ReadmeConf

Recognized(tag) == \E k \in 1..Len(input_types) : input_types[k] = tag

\* C21: clear(form) sets to the empty string the value of every recognized
\* element that lacks the configured fixed attribute, and leaves the value
\* of every element that has the fixed attribute unchanged.
C21_ClearKeepsFixed ==
    clearing.status \in {"returned", "threw"}
    => /\ clearing.status = "returned"
       /\ \A k \in 1..Len(clearing.form) :
             LET before_ == clearing.form[k]
                 after   == clearing.elems[k]
             IN  IF Recognized(before_.tag) /\ ~(conf.elem_attr_fixed \in before_.attrs)
                 THEN after.value = << >>
                 ELSE after.value = before_.value

\* The same of the forms in which every recognized element has the fixed attribute.
C21_AllFixed ==
    (/\ clearing.status # "none"
     /\ \A k \in 1..Len(clearing.form) :
           Recognized(clearing.form[k].tag)
           => conf.elem_attr_fixed \in clearing.form[k].attrs)
    => (clearing.status # "threw" /\ clearing.elems = clearing.form)

\* The step is a submit of the form outcome'.form: the latest call is one,
\* and no response has arrived in the step.
SubmitStep ==
    /\ outcome'.op \in {"submit", "inst.submit"}
    /\ \A i \in 1..Len(http) : i \in DOMAIN http' /\ http'[i].answered = http[i].answered

\* The step is the arrival of a response.
ResponseStep ==
    \E i \in 1..Len(http) : i \in DOMAIN http' /\ ~http[i].answered /\ http'[i].answered

\* The form has an action, which is no function of the instance, and a method.
HasActionAndMethod(form) ==
    /\ Truthy(getAttribute(form, "action"))
    /\ ~(getAttribute(form, "action") \in InstMethods)
    /\ Truthy(getAttribute(form, "method"))

\* The step has handed one more request to Http, for the form f, to its action.
OneRequestTo(f) ==
    /\ Len(http') = Len(http) + 1
    /\ http'[Len(http')].form = f
    /\ http'[Len(http')].url = getAttribute(doc[f], "action")

\* C22: each submit, made from an event handler, of a form with an action and
\* a method issues exactly one request, to the form's action; and the
\* arrival of a response, whatever it is, issues none.
C22_OneRequestPerSubmit ==
    [][/\ (/\ SubmitStep
           /\ outcome'.threwAt # "event"
           /\ HasActionAndMethod(doc[outcome'.form]))
          => OneRequestTo(outcome'.form)
       /\ ResponseStep => Len(http') = Len(http)]_vars

\* The same of the submits that raise nothing.
C22_WhenNothingRaised ==
    [][/\ (/\ SubmitStep
           /\ outcome'.threwAt = "none"
           /\ HasActionAndMethod(doc[outcome'.form])
           /\ toLowerCase(getAttribute(doc[outcome'.form], "method")) \in HttpVerbs)
          => OneRequestTo(outcome'.form)
       /\ ResponseStep => Len(http') = Len(http)]_vars

\* The fragment of a grouped record, as its properties: an object at every
\* prefix of the group's path, and the value as a leaf below the last.
FragmentOf(r) ==
    LET P == split(r.group, ":")
    IN  {Obj(SubSeq(P, 1, k)) : k \in 1..Len(P)}
        \cup {Leaf(P \o <<ToKey(r.name)>>, r.value)}

\* The property e of the tree t outlives the merge of the fragment F: at
\* every key on the way to it that the fragment has as well, both values
\* are structures.
Outlives(e, t, F) ==
    \A k \in 1..Len(e.path) :
        LET q == SubSeq(e.path, 1, k)
        IN  (\E x \in F : x.path = q) => (Obj(q) \in F /\ Obj(q) \in Props(t))

\* C23: the merge of a record's fragment into the tree merges at every key
\* where both values are structures, keeping the existing sibling keys, and
\* elsewhere puts the incoming value in place of the existing one with all
\* that hung below it; records are taken in input order, so of the records
\* with one path the last one's value is in the result.
C23_MergeRule ==
    builder = "colon" =>
        /\ (o > 1 /\ Truthy(val_objs[o - 1].group)) =>
              LET F == FragmentOf(val_objs[o - 1])
              IN  Props(vals_struct) =
                      F \cup {e \in Props(before) : Outlives(e, before, F)}
        /\ phase = "done" =>
              \A j \in 1..NRecs :
                  (\A k \in (j + 1)..NRecs :
                       ~Comparable(FullPath(Rec(k)), FullPath(Rec(j)))
                       \/ FullPath(Rec(k)) = FullPath(Rec(j)))
                  => \E i \in j..NRecs :
                        /\ FullPath(Rec(i)) = FullPath(Rec(j))
                        /\ \A k \in (i + 1)..NRecs : FullPath(Rec(k)) # FullPath(Rec(j))
                        /\ Leaf(FullPath(Rec(j)), Rec(i).value) \in Props(vals_struct)

\* A leaf at a, then a record of group a, which puts a structure in its
\* place, then another of group a, which is merged into that structure.
C23_Witness ==
    /\ builder = "colon" /\ phase = "done" /\ NRecs = 3
    /\ ~Truthy(Rec(1).group) /\ Rec(1).name = A
    /\ Rec(2).group = A /\ Rec(2).name = A
    /\ Rec(3).group = A /\ Rec(3).name = B
    /\ Props(vals_struct) =
          {Obj(<<A>>), Leaf(<<A, A>>, Rec(2).value), Leaf(<<A, B>>, Rec(3).value)}

\* The step is a turn of the fixpoint loop that consumes the record at o.
ConsumingTurn ==
    /\ builder = "fix" /\ phase = "loop" /\ o <= Len(elements) /\ o' = o + 1
    /\ ~(o \in fx.deleted) /\ o \in fx'.deleted

\* C24: a record with a group g and no pargroup that is consumed leaves its
\* value in the tree, at g/name below a structure at g, also when the root
\* key g held a leaf string written by an earlier record: the later write
\* replaces the leaf, and no consumed value is dropped.
C24_GroupReplacesLeaf ==
    [][(/\ ConsumingTurn
        /\ ~Truthy(elements[o].pargroup)
        /\ Truthy(elements[o].group))
       => (/\ Obj(<<elements[o].group>>) \in Props(fx'.values)
           /\ Leaf(<<elements[o].group, ToKey(elements[o].name)>>, elements[o].val)
                 \in Props(fx'.values))]_vars

\* The same of the turns that find no non-empty leaf string at the root key g.
C24_WhenNoLeafThere ==
    [][(/\ ConsumingTurn
        /\ ~Truthy(elements[o].pargroup)
        /\ Truthy(elements[o].group)
        /\ ~(IsLeaf(fx.values, <<elements[o].group>>)
             /\ TruthyAt(fx.values, <<elements[o].group>>)))
       => (/\ Obj(<<elements[o].group>>) \in Props(fx'.values)
           /\ Leaf(<<elements[o].group, ToKey(elements[o].name)>>, elements[o].val)
                 \in Props(fx'.values))]_vars

\* The paths of the tree t that end in the key k and hold a structure.
StructuresKeyed(t, k) ==
    {e.path : e \in {x \in Props(t) : x.obj /\ x.path[Len(x.path)] = k}}

\* The step is a turn of the fixpoint loop, in a pass that takes records
\* with a pargroup, on a record with a pargroup and a group whose pargroup
\* is a key of the tree that holds a structure.
PargroupTurn ==
    /\ builder = "fix" /\ phase = "loop" /\ o <= Len(elements) /\ o' = o + 1
    /\ ~(o \in fx.deleted) /\ fx.baseIsSet
    /\ Truthy(elements[o].pargroup) /\ Truthy(elements[o].group)
    /\ StructuresKeyed(fx.values, elements[o].pargroup) # {}

\* The record at o has been consumed and its value stored at p/g/n, below a
\* structure at p/g, beneath a key p that held a structure; what p/g held
\* besides n is still there.
NestedUnderPargroup ==
    /\ ~fx'.threw
    /\ o \in fx'.deleted
    /\ \E q \in StructuresKeyed(fx.values, elements[o].pargroup) :
          LET grp == q \o <<elements[o].group>>
              nam == grp \o <<ToKey(elements[o].name)>>
          IN  /\ Obj(grp) \in Props(fx'.values)
              /\ Leaf(nam, elements[o].val) \in Props(fx'.values)
              /\ \A e \in Props(fx.values) :
                    (Obj(grp) \in Props(fx.values) /\ Under(grp, e.path)
                        /\ ~IsPrefix(nam, e.path))
                    => e \in Props(fx'.values)

\* C25: a record with pargroup p, group g, name n and value v, taken when p
\* is a key of the tree holding a structure, is consumed and v is stored at
\* p/g/n beneath that key; the structure p/g is made when missing, and kept
\* with its entries when it is there.
C25_PargroupNesting == [][PargroupTurn => NestedUnderPargroup]_vars

\* The same of the turns at which no key p of the tree holds a leaf, and no
\* structure at a key p holds a non-empty leaf at g.
C25_WhenNoLeafInTheWay ==
    [][(/\ PargroupTurn
        /\ \A e \in Props(fx.values) :
              /\ e.path[Len(e.path)] = elements[o].pargroup => e.obj
              /\ (/\ Len(e.path) > 1
                  /\ e.path[Len(e.path)] = elements[o].group
                  /\ e.path[Len(e.path) - 1] = elements[o].pargroup)
                 => (e.obj \/ e.val = << >>))
       => NestedUnderPargroup]_vars

\* What the fixpoint loop has left to do at most: nothing once it has ended;
\* else the turns left in this pass, and a pass for every record not yet
\* consumed and for the pass already asked for.
StepsLeft ==
    IF phase # "loop"
    THEN 0
    ELSE 1 + (Len(elements) + 1 - o)
           + (Len(elements) - Cardinality(fx.deleted) + (IF fx.recur THEN 1 ELSE 0))
             * (Len(elements) + 2)

\* C26: the fixpoint loop terminates for every record sequence.  A further
\* pass is asked for only by a turn that has consumed a record, so every
\* pass but the last has consumed one and the passes are at most the
\* records plus one; every step of the loop brings its end nearer, and the
\* build returns only after a pass that has consumed nothing.
C26_Terminates ==
    /\ [](builder = "fix" =>
            /\ Cardinality(fx.deleted) <= Len(elements)
            /\ fx.passes <= Cardinality(fx.deleted) + 1
            /\ fx.recur => fx.passes <= Cardinality(fx.deleted)
            /\ fx.passes <= Len(elements) + 1
            /\ phase = "done" => ~fx.recur)
    /\ [][builder = "fix" =>
            /\ StepsLeft' < StepsLeft
            /\ fx'.passes # fx.passes => (fx.recur /\ o > Len(elements))
            /\ (fx'.recur /\ ~fx.recur) => fx'.deleted # fx.deleted]_vars

\* Three records, consumed one in each of three passes; the fourth pass
\* consumes nothing and the build returns.
C26_Witness ==
    /\ builder = "fix" /\ phase = "done"
    /\ Len(elements) = 3 /\ fx.passes = 4 /\ fx.deleted = {1, 2, 3}

\* C27: when the fixpoint build returns, no record left unconsumed has a
\* pargroup that is a key of the result, at any depth; so a chain of
\* pargroups -- a record whose pargroup is the group another record has
\* made under its own pargroup -- is resolved in whatever order the records
\* come, in the same pass or a later one.
C27_FixpointComplete ==
    (builder = "fix" /\ phase = "done") =>
        \A i \in Orphans :
            /\ Truthy(elements[i].pargroup)
            /\ ~(elements[i].pargroup \in KeysOf(fx.values))

\* A chain given deepest first: the record under b/a, then the record that
\* makes a/b, then the record that makes a; all three are in the result.
C27_Witness ==
    /\ builder = "fix" /\ phase = "done" /\ Len(elements) = 3
    /\ elements[1].pargroup = B /\ elements[1].group = A
    /\ elements[2].pargroup = A /\ elements[2].group = B
    /\ ~Truthy(elements[3].pargroup) /\ elements[3].group = A
    /\ Orphans = {}
    /\ Leaf(<<A, B, A, ToKey(elements[1].name)>>, elements[1].val) \in Props(fx.values)

\* The place of a tag in the list of kinds: 1 input, 2 select, 3 textarea; 0
\* for a tag that is not in the list.
KindOf(tag) ==
    IF tag = "input" THEN 1 ELSE IF tag = "select" THEN 2 ELSE IF tag = "textarea" THEN 3 ELSE 0

\* The positions of the form's elements whose tag is in the list.
Matched == {p \in 1..Len(input) : KindOf(input[p].tag) > 0}

\* The place in the records of the element at position p: after every
\* element of an earlier kind, and every earlier element of its kind.
PlaceOf(p) ==
    1 + Cardinality({q \in Matched :
                        \/ KindOf(input[q].tag) < KindOf(input[p].tag)
                        \/ KindOf(input[q].tag) = KindOf(input[p].tag) /\ q < p})

\* An attribute as a record has it: false when the element has it not.
Absent(v) == IF v = Null THEN False ELSE v

\* C28: extraction gives one record for every element whose tag is in the
\* list of kinds, the inputs in document order, then the selects, then the
\* textareas, and no other; a group (or pargroup) attribute that is missing
\* gives false in the record, and nothing is raised.
C28_ExtractionOrder ==
    phase = "extracted" =>
        /\ NRecs = Cardinality(Matched)
        /\ \A p \in Matched :
              /\ Rec(PlaceOf(p)).value = input[p].value
              /\ Rec(PlaceOf(p)).group = Absent(input[p].group)
              /\ builder = "colon" => Rec(PlaceOf(p)).name = input[p].name
              /\ builder = "fix" =>
                    /\ Rec(PlaceOf(p)).name = input[p].name
                    /\ Rec(PlaceOf(p)).pargroup = Absent(input[p].pargroup)

\* A textarea, then a select without a group, then an input: the records
\* come in the opposite order.
C28_Witness ==
    /\ phase = "extracted" /\ builder = "colon" /\ Len(input) = 3
    /\ input[1].tag = "textarea" /\ input[2].tag = "select" /\ input[3].tag = "input"
    /\ input[1].group = A /\ input[2].group = Null /\ input[3].group = Null
    /\ val_objs[1].group = False /\ val_objs[2].group = False /\ val_objs[3].group = A

\* The keys a group string with empty segments stands for, the empty string
\* being the key << >>.
KeysMeant(g) ==
    CASE g = <<":", "a">>           -> <<<< >>, A>>
      [] g = <<"a", ":", ":", "b">> -> <<A, << >>, B>>
      [] g = <<"a", ":">>           -> <<A, << >>>>
      [] g = <<":">>                -> <<<< >>, << >>>>

\* C29: the colon-path builder has no error path for group strings with
\* empty segments: the turn for such a record writes its value below the
\* keys of the segments, every empty segment a key that is the empty
\* string at its level, and the build returns.
C29_EmptySegments ==
    /\ phase \in {"loop", "done"}
    /\ (phase = "loop" /\ o > Len(val_objs)) => ENABLED groupValuesReturn
    /\ (o > 1 /\ val_objs[o - 1].group \in MalformedGroups) =>
          LET r == val_objs[o - 1]
              K == KeysMeant(r.group)
          IN  /\ \A k \in 1..Len(K) : Obj(SubSeq(K, 1, k)) \in Props(vals_struct)
              /\ Leaf(K \o <<ToKey(r.name)>>, r.value) \in Props(vals_struct)

\* 'a::b', then ':a', then 'a:': the build has returned with all three.
C29_Witness ==
    /\ phase = "done" /\ Len(val_objs) = 3
    /\ val_objs[1].group = <<"a", ":", ":", "b">>
    /\ val_objs[2].group = <<":", "a">>
    /\ val_objs[3].group = <<"a", ":">>
    /\ Leaf(<<A, << >>, B, ToKey(val_objs[1].name)>>, <<"v">>) \in Props(vals_struct)
    /\ Leaf(<<<< >>, A, ToKey(val_objs[2].name)>>, <<"v">>) \in Props(vals_struct)
    /\ Leaf(<<A, << >>, ToKey(val_objs[3].name)>>, <<"v">>) \in Props(vals_struct)

\* C30: in the tree of the colon-path builder, after any number of records,
\* every leaf at P/k holds the value of a record taken so far whose group
\* path is P and whose name is k, and every structure's path is a prefix of
\* the group path of a record taken so far: no key is there that no record
\* has made.
C30_EveryKeyFromARecord ==
    (builder = "colon" /\ phase \in {"loop", "done"}) =>
        \A e \in Props(vals_struct) :
            \E i \in 1..(o - 1) :
                IF e.obj
                THEN /\ Truthy(val_objs[i].group)
                     /\ IsPrefix(e.path, split(val_objs[i].group, ":"))
                ELSE /\ e.path = FullPath(val_objs[i])
                     /\ e.val = val_objs[i].value

\* A returned tree with a root leaf, and a leaf two structures down.
C30_Witness ==
    /\ builder = "colon" /\ phase = "done" /\ Len(val_objs) = 3
    /\ \E x, y \in {A, B} :
          {Leaf(<<x>>, <<"w">>), Obj(<<A>>), Obj(<<A, B>>), Leaf(<<A, B, y>>, <<"v">>)}
              \subseteq Props(vals_struct)

\* The step is a turn of the fixpoint loop on a record, not yet consumed,
\* that has a pargroup and no group.
LonePargroupTurn ==
    /\ builder = "fix" /\ phase = "loop" /\ o <= Len(elements) /\ o' = o + 1
    /\ ~(o \in fx.deleted)
    /\ Truthy(elements[o].pargroup) /\ ~Truthy(elements[o].group)

\* The properties of the tree t that lie below a key k.
BelowKey(t, k) ==
    {e \in Props(t) : \E j \in 1..(Len(e.path) - 1) : e.path[j] = k}

\* C31: a pargroup without a group is not recognized: the turn for a record
\* with a pargroup and no group makes no entry beneath the pargroup key.
C31_LonePargroupIgnored ==
    [][LonePargroupTurn =>
          BelowKey(fx'.values, elements[o].pargroup)
              \subseteq BelowKey(fx.values, elements[o].pargroup)]_vars

\* The same of the turns at which the pargroup is no key of the tree: the
\* tree stays as it is and the record is not consumed.
C31_WhenNotAKey ==
    [][(LonePargroupTurn /\ ~(elements[o].pargroup \in KeysOf(fx.values)))
       => (fx'.values = fx.values /\ ~(o \in fx'.deleted))]_vars

\* C32: the fixpoint build raises no exception, whatever the records: also
\* when the pargroup of a record is a key of the tree that holds a leaf
\* string, as the name of a field without a group or inside one.
C32_BuildNeverRaises == builder = "fix" => ~fx.threw /\ phase # "threw"

\* The only turn that raises: the scan has met the record's pargroup as a
\* key that holds a leaf string.
C32_RaisesOnlyAtALeaf ==
    [][(builder = "fix" /\ phase' = "threw" /\ phase # "threw")
       => (/\ o <= Len(elements)
           /\ Truthy(elements[o].pargroup)
           /\ \E e \in Props(fx.values) :
                 ~e.obj /\ e.path[Len(e.path)] = elements[o].pargroup)]_vars

\* The leaves the step has put into the tree.
NewLeaves == {e \in Props(fx'.values) : ~e.obj /\ ~(e \in Props(fx.values))}

\* C33: a pargroup record that is consumed is put in at one place of the
\* tree: also when its pargroup is a key in several branches, or at several
\* depths, the turn writes its value once.
C33_InsertedOnce ==
    [][(ConsumingTurn /\ Truthy(elements[o].pargroup))
       => Cardinality(NewLeaves) <= 1]_vars

\* The same of the turns at which one key of the tree at most is the pargroup.
C33_WhenOneKey ==
    [][(/\ ConsumingTurn
        /\ Truthy(elements[o].pargroup)
        /\ Cardinality({e \in Props(fx.values) :
                           e.path[Len(e.path)] = elements[o].pargroup}) <= 1)
       => Cardinality(NewLeaves) <= 1]_vars

\* The orders in which n records can come.
Orders(n) == {f \in [1..n -> 1..n] : \A i, j \in 1..n : f[i] = f[j] => i = j}

\* No two records have one full path, and no record's full path is the
\* beginning of another's.
NothingCollides ==
    \A i, j \in 1..Len(val_objs) :
        i # j => ~Comparable(FullPath(val_objs[i]), FullPath(val_objs[j]))

\* C34: the colon-path builder does not depend on the order of the records
\* when nothing collides: with no two records of one full path and no full
\* path a proper prefix of another, the records in any order give a tree
\* with the same properties at the same paths.
C34_OrderIndependent ==
    (builder = "colon" /\ phase = "done" /\ NothingCollides) =>
        \A f \in Orders(Len(val_objs)) :
            Props(groupValues([i \in 1..Len(val_objs) |-> val_objs[f[i]]]))
                = Props(vals_struct)

\* Two records that share the beginning of their paths and one at the
\* root, none colliding; in the opposite order the same properties are made in another
\* order.
C34_Witness ==
    /\ builder = "colon" /\ phase = "done" /\ Len(val_objs) = 3 /\ NothingCollides
    /\ val_objs[1].group = <<"a", ":", "b">>
    /\ val_objs[2].group = <<"a", ":", "a">>
    /\ val_objs[3].group = False /\ val_objs[3].name = B
    /\ LET back == groupValues(<<val_objs[3], val_objs[2], val_objs[1]>>)
       IN  back # vals_struct /\ Props(back) = Props(vals_struct)

====
